---- MODULE Spec2Model ----
(***************************************************************************)
(* Model of poster: the dispatcher of src/poster.go.  main discovers the   *)
(* request files, starts a pool of workers that drain filesChan, and       *)
(* collects one Result per file from resultsChan; a separate goroutine     *)
(* closes resultsChan once the WaitGroup reaches zero.                     *)
(*                                                                         *)
(* The file system and the HTTP server are the environment.  env records,  *)
(* for every discovered file, whether it can be read, whether it holds     *)
(* valid JSON, what the server replies (0 = no reply at all) and whether   *)
(* the response file can be written; each of these is settled when a       *)
(* worker first asks and stays as it is from then on.                      *)
(***************************************************************************)
EXTENDS Integers, Sequences, FiniteSets, TLC

\* Bounds of the model.
MaxTasks == 2
MaxWorkers == 2

VARIABLES
    mainPC,        \* position of main
    cfg,           \* *config.Config (the Workers field)
    configured,    \* the value of --workers as parsed (history)
    filePaths,     \* result of filepath.Glob
    env,           \* environment: fate of every discovered file
    filesChan,     \* chan string
    resultsChan,   \* chan Result
    wg,            \* sync.WaitGroup counter
    spawned,       \* loop variable i of the worker-start loop
    enqueued,      \* number of filePaths already sent to filesChan
    wk,            \* per worker goroutine: pc and locals
    waiterPC,      \* position of the goroutine that closes resultsChan
    successCount,
    errorCount,
    files,         \* responses directory: file name -> content
    sendCalls,     \* history: sendRequest invocations per file
    dequeued,      \* history: receptions from filesChan per file
    produced,      \* history: Results sent to resultsChan per file
    collected,     \* history: Results received by main per file
    reported,      \* history: number of times the totals were printed
    closes,        \* history: number of close(resultsChan) calls
    panicked,      \* a goroutine panicked (send on / close of closed chan)
    startup,       \* environment: what main found before the dispatch
    unit,          \* one function call taken alone: its inputs and results
    lg             \* the logger: its handles and what the sinks received

vars == <<mainPC, cfg, configured, filePaths, env, filesChan, resultsChan,
          wg, spawned, enqueued, wk, waiterPC, successCount, errorCount,
          files, sendCalls, dequeued, produced, collected, reported,
          closes, panicked, startup, unit, lg>>

\* The variables of the dispatcher.
dispatchVars == <<mainPC, cfg, configured, filePaths, env, filesChan,
                  resultsChan, wg, spawned, enqueued, wk, waiterPC,
                  successCount, errorCount, files, sendCalls, dequeued,
                  produced, collected, reported, closes, panicked, startup>>

WorkerIds == 0 .. (MaxWorkers - 1)
TaskIds == 1 .. MaxTasks

\* What the server may do with a request: 0 stands for no reply at all
\* (client.Do returned an error), the others are HTTP status codes.
Replies == {0, 200, 500}

\* The environment of one file before any worker has looked at it.
Unsettled == [readable |-> "?", valid |-> "?", status |-> -1, writable |-> "?"]

\* The answers the environment may give to a question whose answer so far is
\* cur: any of them the first time, the same one afterwards.
Answers(cur, unknown, all) == IF cur = unknown THEN all ELSE {cur}
YesNo == {"yes", "no"}

\* How os.WriteFile may end: written; not opened, the path left as it was;
\* or failed after the file was opened and truncated, which leaves a file
\* that holds no complete response.
WriteEnds == {"yes", "no", "partial"}

\* The content of a file that a failed write has left behind.
Partial == -1

N == Len(filePaths)
Tasks == 1 .. N

Min(a, b) == IF a < b THEN a ELSE b

\* type Result struct { FileName string; Err error }
Result(name, err) == [FileName |-> name, Err |-> err]
NoResult == Result(0, "nil")

NewChan(capacity) == [buf |-> <<>>, closed |-> FALSE, cap |-> capacity]

NoWorker == [pc |-> "none", filePath |-> 0, response |-> 0, res |-> NoResult]

\* What main has found out about its configuration and directories.
NotStarted == [config |-> "?", requestsDir |-> "?", responsesDir |-> "?", glob |-> "?"]

\* No function call is taken alone, no logger is in use.
NoUnit == [op |-> "none"]
NoLogger == [handles |-> <<>>, sink |-> <<>>]

DispatchInit ==
    /\ mainPC = "config"
    /\ cfg = [Workers |-> 0]
    /\ configured = 0
    /\ filePaths = <<>>
    /\ env = <<>>
    /\ filesChan = NewChan(0)
    /\ resultsChan = NewChan(0)
    /\ wg = 0
    /\ spawned = 0
    /\ enqueued = 0
    /\ wk = [w \in WorkerIds |-> NoWorker]
    /\ waiterPC = "none"
    /\ successCount = 0
    /\ errorCount = 0
    /\ files = [t \in TaskIds |-> 0]
    /\ sendCalls = [t \in TaskIds |-> 0]
    /\ dequeued = [t \in TaskIds |-> 0]
    /\ produced = [t \in TaskIds |-> <<>>]
    /\ collected = [t \in TaskIds |-> 0]
    /\ reported = 0
    /\ closes = 0
    /\ panicked = FALSE
    /\ startup = NotStarted

Init ==
    /\ DispatchInit
    /\ unit = NoUnit
    /\ lg = NoLogger

----
\* main, up to the start of the pool

\* cfg, err := config.New(); parse accepts 1 <= workers <= NumCPU
Configure ==
    /\ mainPC = "config"
    /\ \/ /\ mainPC' = "exited"
          /\ startup' = [startup EXCEPT !.config = "no"]
          /\ UNCHANGED <<cfg, configured>>
       \/ \E n \in 1 .. MaxWorkers :
             /\ cfg' = [Workers |-> n]
             /\ configured' = n
             /\ startup' = [startup EXCEPT !.config = "yes"]
             /\ mainPC' = "stat"
    /\ UNCHANGED <<unit, lg>>
    /\ UNCHANGED <<filePaths, env, filesChan, resultsChan, wg, spawned, enqueued,
                   wk, waiterPC, successCount, errorCount, files, sendCalls,
                   dequeued, produced, collected, reported, closes, panicked>>

\* os.Stat(cfg.RequestsDir)
CheckRequestsDir ==
    /\ mainPC = "stat"
    /\ \E exists \in YesNo :
          /\ startup' = [startup EXCEPT !.requestsDir = exists]
          /\ mainPC' = IF exists = "yes" THEN "mkdir" ELSE "exited"
    /\ UNCHANGED <<unit, lg>>
    /\ UNCHANGED <<cfg, configured, filePaths, env, filesChan, resultsChan, wg,
                   spawned, enqueued, wk, waiterPC, successCount, errorCount,
                   files, sendCalls, dequeued, produced, collected, reported,
                   closes, panicked>>

\* Mutant of MakeResponsesDir: the error of os.MkdirAll is ignored.
MakeResponsesDirIgnored ==
    /\ mainPC = "mkdir"
    /\ \E made \in YesNo :
          /\ startup' = [startup EXCEPT !.responsesDir = made]
          /\ mainPC' = "glob"
    /\ UNCHANGED <<unit, lg>>
    /\ UNCHANGED <<cfg, configured, filePaths, env, filesChan, resultsChan, wg,
                   spawned, enqueued, wk, waiterPC, successCount, errorCount,
                   files, sendCalls, dequeued, produced, collected, reported,
                   closes, panicked>>

\* os.MkdirAll(cfg.ResponsesDir, 0755)
MakeResponsesDir ==
    /\ mainPC = "mkdir"
    /\ \E made \in YesNo :
          /\ startup' = [startup EXCEPT !.responsesDir = made]
          /\ mainPC' = IF made = "yes" THEN "glob" ELSE "exited"
    /\ UNCHANGED <<unit, lg>>
    /\ UNCHANGED <<cfg, configured, filePaths, env, filesChan, resultsChan, wg,
                   spawned, enqueued, wk, waiterPC, successCount, errorCount,
                   files, sendCalls, dequeued, produced, collected, reported,
                   closes, panicked>>

\* Mutant of Glob: main goes on when nothing was found.
GlobGoesOn ==
    /\ mainPC = "glob"
    /\ \/ /\ mainPC' = "exited"
          /\ startup' = [startup EXCEPT !.glob = "no"]
          /\ UNCHANGED <<filePaths, env>>
       \/ \E n \in 0 .. MaxTasks :
             /\ filePaths' = [k \in 1 .. n |-> k]
             /\ env' = [k \in 1 .. n |-> Unsettled]
             /\ startup' = [startup EXCEPT !.glob = "yes"]
             /\ mainPC' = "setup"
    /\ UNCHANGED <<cfg, configured, filesChan, resultsChan, wg, spawned, enqueued,
                   wk, waiterPC, successCount, errorCount, files, sendCalls,
                   dequeued, produced, collected, reported, closes, panicked>>
    /\ UNCHANGED <<unit, lg>>

\* filepath.Glob(cfg.RequestsDir + "/*.json"); return when nothing was found
Glob ==
    /\ mainPC = "glob"
    /\ \/ /\ mainPC' = "exited"
          /\ startup' = [startup EXCEPT !.glob = "no"]
          /\ UNCHANGED <<filePaths, env>>
       \/ \E n \in 0 .. MaxTasks :
             /\ filePaths' = [k \in 1 .. n |-> k]
             /\ env' = [k \in 1 .. n |-> Unsettled]
             /\ startup' = [startup EXCEPT !.glob = "yes"]
             /\ mainPC' = IF n = 0 THEN "exited" ELSE "setup"
    /\ UNCHANGED <<cfg, configured, filesChan, resultsChan, wg, spawned, enqueued,
                   wk, waiterPC, successCount, errorCount, files, sendCalls,
                   dequeued, produced, collected, reported, closes, panicked>>
    /\ UNCHANGED <<unit, lg>>

\* Mutant of Clamp: the pool is not clamped to the number of files.
ClampMissing(workers, n) == workers

\* if len(filePaths) < cfg.Workers { cfg.Workers = len(filePaths) }
Clamp(workers, n) == IF n < workers THEN n ELSE workers

\* Mutant of ChanCap: the channels are made one element too small.
ChanCapShort(n) == n - 1

\* make(chan ..., len(filePaths))
ChanCap(n) == n

\* the clamp, the two channels and the HTTP client
Setup ==
    /\ mainPC = "setup"
    /\ cfg' = [cfg EXCEPT !.Workers = Clamp(cfg.Workers, N)]
    /\ filesChan' = NewChan(ChanCap(N))
    /\ resultsChan' = NewChan(ChanCap(N))
    /\ mainPC' = IF 0 < cfg'.Workers THEN "spawn"
                 ELSE IF 0 < N THEN "enqueue" ELSE "close"
    /\ UNCHANGED <<configured, filePaths, env, wg, spawned, enqueued, wk,
                   waiterPC, successCount, errorCount, files, sendCalls,
                   dequeued, produced, collected, reported, closes, panicked>>
    /\ UNCHANGED <<startup, unit, lg>>

\* wg.Add(1); go work(...)
StartWorker ==
    /\ mainPC = "spawn"
    /\ spawned < cfg.Workers
    /\ wg' = wg + 1
    /\ wk' = [wk EXCEPT ![spawned] = [NoWorker EXCEPT !.pc = "recv"]]
    /\ spawned' = spawned + 1
    /\ mainPC' = IF spawned' < cfg.Workers THEN "spawn"
                 ELSE IF 0 < N THEN "enqueue" ELSE "close"
    /\ UNCHANGED <<cfg, configured, filePaths, env, filesChan, resultsChan,
                   enqueued, waiterPC, successCount, errorCount, files,
                   sendCalls, dequeued, produced, collected, reported, closes,
                   panicked>>
    /\ UNCHANGED <<startup, unit, lg>>

\* Mutant of Enqueue: every iteration sends the first element of filePaths.
EnqueueFirst ==
    /\ mainPC = "enqueue"
    /\ Len(filesChan.buf) < filesChan.cap
    /\ filesChan' = [filesChan EXCEPT !.buf = Append(@, filePaths[1])]
    /\ enqueued' = enqueued + 1
    /\ mainPC' = IF enqueued' < N THEN "enqueue" ELSE "close"
    /\ UNCHANGED <<cfg, configured, filePaths, env, resultsChan, wg, spawned, wk,
                   waiterPC, successCount, errorCount, files, sendCalls,
                   dequeued, produced, collected, reported, closes, panicked>>
    /\ UNCHANGED <<startup, unit, lg>>

\* filesChan <- filePath (blocks while the buffer is full)
Enqueue ==
    /\ mainPC = "enqueue"
    /\ Len(filesChan.buf) < filesChan.cap
    /\ filesChan' = [filesChan EXCEPT !.buf = Append(@, filePaths[enqueued + 1])]
    /\ enqueued' = enqueued + 1
    /\ mainPC' = IF enqueued' < N THEN "enqueue" ELSE "close"
    /\ UNCHANGED <<cfg, configured, filePaths, env, resultsChan, wg, spawned, wk,
                   waiterPC, successCount, errorCount, files, sendCalls,
                   dequeued, produced, collected, reported, closes, panicked>>
    /\ UNCHANGED <<startup, unit, lg>>

\* close(filesChan)
CloseFiles ==
    /\ mainPC = "close"
    /\ filesChan' = [filesChan EXCEPT !.closed = TRUE]
    /\ mainPC' = "gowait"
    /\ UNCHANGED <<cfg, configured, filePaths, env, resultsChan, wg, spawned,
                   enqueued, wk, waiterPC, successCount, errorCount, files,
                   sendCalls, dequeued, produced, collected, reported, closes,
                   panicked>>
    /\ UNCHANGED <<startup, unit, lg>>

\* go func() { wg.Wait(); close(resultsChan) }()
StartWaiter ==
    /\ mainPC = "gowait"
    /\ waiterPC' = "wait"
    /\ mainPC' = "collect"
    /\ UNCHANGED <<cfg, configured, filePaths, env, filesChan, resultsChan, wg,
                   spawned, enqueued, wk, successCount, errorCount, files,
                   sendCalls, dequeued, produced, collected, reported, closes,
                   panicked>>
    /\ UNCHANGED <<startup, unit, lg>>

\* Mutant of WaiterWait: the goroutine does not wait for the WaitGroup.
WaiterNoWait ==
    /\ waiterPC = "wait"
    /\ waiterPC' = "close"
    /\ UNCHANGED <<mainPC, cfg, configured, filePaths, env, filesChan,
                   resultsChan, wg, spawned, enqueued, wk, successCount,
                   errorCount, files, sendCalls, dequeued, produced, collected,
                   reported, closes, panicked>>
    /\ UNCHANGED <<startup, unit, lg>>

\* wg.Wait() returns once the counter is zero
WaiterWait ==
    /\ waiterPC = "wait"
    /\ wg = 0
    /\ waiterPC' = "close"
    /\ UNCHANGED <<mainPC, cfg, configured, filePaths, env, filesChan,
                   resultsChan, wg, spawned, enqueued, wk, successCount,
                   errorCount, files, sendCalls, dequeued, produced, collected,
                   reported, closes, panicked>>
    /\ UNCHANGED <<startup, unit, lg>>

\* close(resultsChan); closing a closed channel panics
WaiterClose ==
    /\ waiterPC = "close"
    /\ resultsChan' = [resultsChan EXCEPT !.closed = TRUE]
    /\ closes' = closes + 1
    /\ panicked' = (panicked \/ resultsChan.closed)
    /\ waiterPC' = "done"
    /\ UNCHANGED <<mainPC, cfg, configured, filePaths, env, filesChan, wg,
                   spawned, enqueued, wk, successCount, errorCount, files,
                   sendCalls, dequeued, produced, collected, reported>>
    /\ UNCHANGED <<startup, unit, lg>>

----
\* main: for result := range resultsChan { ... }

\* one iteration of the loop: receive a Result and count it
Collect ==
    /\ mainPC = "collect"
    /\ resultsChan.buf # <<>>
    /\ LET result == Head(resultsChan.buf) IN
          /\ resultsChan' = [resultsChan EXCEPT !.buf = Tail(@)]
          /\ IF result.Err # "nil"
             THEN /\ errorCount' = errorCount + 1
                  /\ UNCHANGED successCount
             ELSE /\ successCount' = successCount + 1
                  /\ UNCHANGED errorCount
          /\ collected' = [collected EXCEPT ![result.FileName] = @ + 1]
    /\ UNCHANGED <<mainPC, cfg, configured, filePaths, env, filesChan, wg,
                   spawned, enqueued, wk, waiterPC, files, sendCalls, dequeued,
                   produced, reported, closes, panicked>>
    /\ UNCHANGED <<startup, unit, lg>>

\* Mutant of Report: the loop ends as soon as resultsChan is closed, with
\* Results still buffered.
ReportWhenClosed ==
    /\ mainPC = "collect"
    /\ resultsChan.closed
    /\ reported' = reported + 1
    /\ mainPC' = "done"
    /\ UNCHANGED <<cfg, configured, filePaths, env, filesChan, resultsChan, wg,
                   spawned, enqueued, wk, waiterPC, successCount, errorCount,
                   files, sendCalls, dequeued, produced, collected, closes,
                   panicked>>
    /\ UNCHANGED <<startup, unit, lg>>

\* Mutant of Report: the loop ends as soon as resultsChan is empty, closed
\* or not.
ReportWhenEmpty ==
    /\ mainPC = "collect"
    /\ resultsChan.buf = <<>>
    /\ reported' = reported + 1
    /\ mainPC' = "done"
    /\ UNCHANGED <<cfg, configured, filePaths, env, filesChan, resultsChan, wg,
                   spawned, enqueued, wk, waiterPC, successCount, errorCount,
                   files, sendCalls, dequeued, produced, collected, closes,
                   panicked>>
    /\ UNCHANGED <<startup, unit, lg>>

\* the loop ends when resultsChan is closed and empty; the totals are printed
Report ==
    /\ mainPC = "collect"
    /\ resultsChan.buf = <<>>
    /\ resultsChan.closed
    /\ reported' = reported + 1
    /\ mainPC' = "done"
    /\ UNCHANGED <<cfg, configured, filePaths, env, filesChan, resultsChan, wg,
                   spawned, enqueued, wk, waiterPC, successCount, errorCount,
                   files, sendCalls, dequeued, produced, collected, closes,
                   panicked>>
    /\ UNCHANGED <<startup, unit, lg>>

----
\* work: one goroutine per worker

othersUnchanged == UNCHANGED <<mainPC, cfg, configured, filePaths, spawned,
                               enqueued, waiterPC, successCount, errorCount,
                               collected, reported, closes, startup, unit, lg>>

\* for filePath := range filesChan: a file is received
Recv(w) ==
    /\ wk[w].pc = "recv"
    /\ filesChan.buf # <<>>
    /\ LET filePath == Head(filesChan.buf) IN
          /\ filesChan' = [filesChan EXCEPT !.buf = Tail(@)]
          /\ wk' = [wk EXCEPT ![w] = [NoWorker EXCEPT !.pc = "read",
                                                     !.filePath = filePath]]
          /\ dequeued' = [dequeued EXCEPT ![filePath] = @ + 1]
    /\ othersUnchanged
    /\ UNCHANGED env
    /\ UNCHANGED <<resultsChan, wg, files, sendCalls, produced, panicked>>

\* for filePath := range filesChan: the channel is closed and drained
RecvClosed(w) ==
    /\ wk[w].pc = "recv"
    /\ filesChan.buf = <<>>
    /\ filesChan.closed
    /\ wk' = [wk EXCEPT ![w].pc = "exit"]
    /\ othersUnchanged
    /\ UNCHANGED env
    /\ UNCHANGED <<filesChan, resultsChan, wg, files, sendCalls, dequeued,
                   produced, panicked>>

\* Mutant of ReadFile: an unreadable file is skipped without a Result.
ReadFileNoResult(w) ==
    /\ wk[w].pc = "read"
    /\ LET fileName == wk[w].filePath IN
       \E readable \in Answers(env[fileName].readable, "?", YesNo) :
          /\ env' = [env EXCEPT ![fileName].readable = readable]
          /\ wk' = IF readable = "no"
                   THEN [wk EXCEPT ![w].pc = "recv"]
                   ELSE [wk EXCEPT ![w].pc = "valid"]
    /\ othersUnchanged
    /\ UNCHANGED <<filesChan, resultsChan, wg, files, sendCalls, dequeued,
                   produced, panicked>>

\* jsonData, err := os.ReadFile(filePath)
ReadFile(w) ==
    /\ wk[w].pc = "read"
    /\ LET fileName == wk[w].filePath IN
       \E readable \in Answers(env[fileName].readable, "?", YesNo) :
          /\ env' = [env EXCEPT ![fileName].readable = readable]
          /\ wk' = IF readable = "no"
                   THEN [wk EXCEPT ![w].pc = "emit",
                                   ![w].res = Result(fileName, "read")]
                   ELSE [wk EXCEPT ![w].pc = "valid"]
    /\ othersUnchanged
    /\ UNCHANGED <<filesChan, resultsChan, wg, files, sendCalls, dequeued,
                   produced, panicked>>

\* Mutant of Validate: the outcome of json.Valid is ignored.
ValidateIgnored(w) ==
    /\ wk[w].pc = "valid"
    /\ LET fileName == wk[w].filePath IN
       \E valid \in Answers(env[fileName].valid, "?", YesNo) :
          /\ env' = [env EXCEPT ![fileName].valid = valid]
          /\ wk' = [wk EXCEPT ![w].pc = "send"]
    /\ othersUnchanged
    /\ UNCHANGED <<filesChan, resultsChan, wg, files, sendCalls, dequeued,
                   produced, panicked>>

\* if !json.Valid(jsonData)
Validate(w) ==
    /\ wk[w].pc = "valid"
    /\ LET fileName == wk[w].filePath IN
       \E valid \in Answers(env[fileName].valid, "?", YesNo) :
          /\ env' = [env EXCEPT ![fileName].valid = valid]
          /\ wk' = IF valid = "no"
                   THEN [wk EXCEPT ![w].pc = "emit",
                                   ![w].res = Result(fileName, "invalid")]
                   ELSE [wk EXCEPT ![w].pc = "send"]
    /\ othersUnchanged
    /\ UNCHANGED <<filesChan, resultsChan, wg, files, sendCalls, dequeued,
                   produced, panicked>>

\* sendRequest is entered: the request is built and client.Do is called
SendBegin(w) ==
    /\ wk[w].pc = "send"
    /\ sendCalls' = [sendCalls EXCEPT ![wk[w].filePath] = @ + 1]
    /\ wk' = [wk EXCEPT ![w].pc = "inflight"]
    /\ othersUnchanged
    /\ UNCHANGED env
    /\ UNCHANGED <<filesChan, resultsChan, wg, files, dequeued, produced,
                   panicked>>

\* what sendRequest returns for the server's reply to the request of a file:
\* (nil, err) without a reply, (body, err) for a status outside 200..299,
\* (body, nil) otherwise.  The body of the reply to file t is written t.
sendRequest(t, status) ==
    IF status = 0 THEN [body |-> 0, err |-> "transport"]
    ELSE IF status < 200 \/ status >= 300 THEN [body |-> t, err |-> "status"]
    ELSE [body |-> t, err |-> "nil"]

\* Mutant of SendReturn: a request that failed is sent again.
SendReturnRetries(w) ==
    /\ wk[w].pc = "inflight"
    /\ LET fileName == wk[w].filePath IN
       \E status \in Answers(env[fileName].status, -1, Replies) :
          LET r == sendRequest(fileName, status) IN
             /\ env' = [env EXCEPT ![fileName].status = status]
             /\ wk' = IF r.err # "nil"
                      THEN [wk EXCEPT ![w].pc = "send"]
                      ELSE [wk EXCEPT ![w].pc = "save", ![w].response = r.body]
    /\ othersUnchanged
    /\ UNCHANGED <<filesChan, resultsChan, wg, files, sendCalls, dequeued,
                   produced, panicked>>

\* client.Do returns and sendRequest with it
SendReturn(w) ==
    /\ wk[w].pc = "inflight"
    /\ LET fileName == wk[w].filePath IN
       \E status \in Answers(env[fileName].status, -1, Replies) :
          LET r == sendRequest(fileName, status) IN
             /\ env' = [env EXCEPT ![fileName].status = status]
             /\ wk' = IF r.err # "nil"
                      THEN [wk EXCEPT ![w].pc = "emit",
                                      ![w].res = Result(fileName, "send")]
                      ELSE [wk EXCEPT ![w].pc = "save", ![w].response = r.body]
    /\ othersUnchanged
    /\ UNCHANGED <<filesChan, resultsChan, wg, files, sendCalls, dequeued,
                   produced, panicked>>

\* Mutant of SaveResponse: every response is written under the first name.
SaveResponseOneName(w) ==
    /\ wk[w].pc = "save"
    /\ LET fileName == wk[w].filePath IN
       \E writable \in Answers(env[fileName].writable, "?", WriteEnds) :
          /\ env' = [env EXCEPT ![fileName].writable = writable]
          /\ files' = [files EXCEPT ![1] = IF writable = "yes" THEN wk[w].response
                                           ELSE IF writable = "partial" THEN Partial
                                           ELSE @]
          /\ wk' = [wk EXCEPT ![w].pc = "emit",
                              ![w].res = Result(fileName, IF writable = "yes"
                                                          THEN "nil" ELSE "save")]
    /\ othersUnchanged
    /\ UNCHANGED <<filesChan, resultsChan, wg, sendCalls, dequeued, produced,
                   panicked>>

\* Mutant of SaveResponse: the response is written under a name that the
\* worker gives it.
SaveResponseByWorker(w) ==
    /\ wk[w].pc = "save"
    /\ LET fileName == wk[w].filePath IN
       \E writable \in Answers(env[fileName].writable, "?", WriteEnds) :
          /\ env' = [env EXCEPT ![fileName].writable = writable]
          /\ files' = [files EXCEPT ![w + 1] =
                          IF writable = "yes" THEN wk[w].response
                          ELSE IF writable = "partial" THEN Partial
                          ELSE @]
          /\ wk' = [wk EXCEPT ![w].pc = "emit",
                              ![w].res = Result(fileName, IF writable = "yes"
                                                          THEN "nil" ELSE "save")]
    /\ othersUnchanged
    /\ UNCHANGED <<filesChan, resultsChan, wg, sendCalls, dequeued, produced,
                   panicked>>

\* saveResponse(fileName, response, responsesDir)
SaveResponse(w) ==
    /\ wk[w].pc = "save"
    /\ LET fileName == wk[w].filePath IN
       \E writable \in Answers(env[fileName].writable, "?", WriteEnds) :
          /\ env' = [env EXCEPT ![fileName].writable = writable]
          /\ files' = [files EXCEPT ![fileName] =
                          IF writable = "yes" THEN wk[w].response
                          ELSE IF writable = "partial" THEN Partial
                          ELSE @]
          /\ wk' = [wk EXCEPT ![w].pc = "emit",
                              ![w].res = Result(fileName, IF writable = "yes"
                                                          THEN "nil" ELSE "save")]
    /\ othersUnchanged
    /\ UNCHANGED <<filesChan, resultsChan, wg, sendCalls, dequeued, produced,
                   panicked>>

\* Mutant of Emit: return instead of continue after an error Result.
EmitThenReturn(w) ==
    /\ wk[w].pc = "emit"
    /\ resultsChan.closed \/ Len(resultsChan.buf) < resultsChan.cap
    /\ IF resultsChan.closed
       THEN /\ panicked' = TRUE
            /\ wk' = [wk EXCEPT ![w].pc = "done"]
            /\ UNCHANGED <<resultsChan, produced>>
       ELSE /\ resultsChan' = [resultsChan EXCEPT !.buf = Append(@, wk[w].res)]
            /\ produced' = [produced EXCEPT ![wk[w].res.FileName] =
                                               Append(@, wk[w].res.Err)]
            /\ wk' = [wk EXCEPT ![w] = [NoWorker EXCEPT !.pc =
                                  IF wk[w].res.Err # "nil" THEN "exit" ELSE "recv"]]
            /\ UNCHANGED panicked
    /\ othersUnchanged
    /\ UNCHANGED env
    /\ UNCHANGED <<filesChan, wg, files, sendCalls, dequeued>>

\* resultsChan <- Result{...}: blocks while the buffer is full, panics when
\* the channel is closed; then the next iteration of the loop, where the
\* variables of this iteration are gone
Emit(w) ==
    /\ wk[w].pc = "emit"
    /\ resultsChan.closed \/ Len(resultsChan.buf) < resultsChan.cap
    /\ IF resultsChan.closed
       THEN /\ panicked' = TRUE
            /\ wk' = [wk EXCEPT ![w].pc = "done"]
            /\ UNCHANGED <<resultsChan, produced>>
       ELSE /\ resultsChan' = [resultsChan EXCEPT !.buf = Append(@, wk[w].res)]
            /\ produced' = [produced EXCEPT ![wk[w].res.FileName] =
                                               Append(@, wk[w].res.Err)]
            /\ wk' = [wk EXCEPT ![w] = [NoWorker EXCEPT !.pc = "recv"]]
            /\ UNCHANGED panicked
    /\ othersUnchanged
    /\ UNCHANGED env
    /\ UNCHANGED <<filesChan, wg, files, sendCalls, dequeued>>

\* Mutant of Exit: the worker returns without wg.Done().
ExitNoDone(w) ==
    /\ wk[w].pc = "exit"
    /\ wk' = [wk EXCEPT ![w].pc = "done"]
    /\ othersUnchanged
    /\ UNCHANGED env
    /\ UNCHANGED <<filesChan, resultsChan, wg, files, sendCalls, dequeued,
                   produced, panicked>>

\* defer wg.Done()
Exit(w) ==
    /\ wk[w].pc = "exit"
    /\ wg' = wg - 1
    /\ wk' = [wk EXCEPT ![w].pc = "done"]
    /\ othersUnchanged
    /\ UNCHANGED env
    /\ UNCHANGED <<filesChan, resultsChan, files, sendCalls, dequeued, produced,
                   panicked>>

----
MainStep ==
    \/ Configure
    \/ CheckRequestsDir
    \/ MakeResponsesDir
    \/ Glob
    \/ Setup
    \/ StartWorker
    \/ Enqueue
    \/ CloseFiles
    \/ StartWaiter
    \/ Collect
    \/ Report

WaiterStep ==
    \/ WaiterWait
    \/ WaiterClose

WorkerStep(w) ==
    \/ Recv(w)
    \/ RecvClosed(w)
    \/ ReadFile(w)
    \/ Validate(w)
    \/ SendBegin(w)
    \/ SendReturn(w)
    \/ SaveResponse(w)
    \/ Emit(w)
    \/ Exit(w)

Next ==
    \/ MainStep
    \/ WaiterStep
    \/ \E w \in WorkerIds : WorkerStep(w)

Spec == Init /\ [][Next]_vars

\* The Go scheduler runs every runnable goroutine, and every client.Do
\* returns within the client's Timeout.
FairSpec ==
    /\ Spec
    /\ WF_vars(MainStep)
    /\ WF_vars(WaiterStep)
    /\ \A w \in WorkerIds : WF_vars(WorkerStep(w))

----
\* encoding/json as saveResponse and work use it, on texts taken token by
\* token: the punctuation of JSON, "s" for a string literal and " " for a
\* white-space character.  The output of json.Indent has "nl" for a newline.

\* Bound: the length of the response bodies that are enumerated.
MaxBody == 4

Alphabet == {"{", "}", "[", "]", ",", ":", "s", " "}

\* The texts over Alphabet of length at most n.
Texts(n) == UNION {[1 .. k -> Alphabet] : k \in 0 .. n}

\* scanner.step: the state the scanner is in, its parseState stack and the
\* next token give the new state, the new stack and the scan code.
ScanError == [st |-> "error", ps |-> <<>>, op |-> "error"]

stateEndTop(c) ==
    IF c = " " THEN [st |-> "endTop", ps |-> <<>>, op |-> "end"] ELSE ScanError

popParseState(ps, code) ==
    LET rest == SubSeq(ps, 1, Len(ps) - 1) IN
       [st |-> IF rest = <<>> THEN "endTop" ELSE "endValue", ps |-> rest, op |-> code]

stateEndValue(ps, c) ==
    IF ps = <<>> THEN stateEndTop(c)
    ELSE IF c = " " THEN [st |-> "endValue", ps |-> ps, op |-> "skip"]
    ELSE LET n == Len(ps) IN
       CASE ps[n] = "key" ->
               IF c = ":"
               THEN [st |-> "beginValue", ps |-> [ps EXCEPT ![n] = "value"],
                     op |-> "objectKey"]
               ELSE ScanError
         [] ps[n] = "value" ->
               IF c = ","
               THEN [st |-> "beginString", ps |-> [ps EXCEPT ![n] = "key"],
                     op |-> "objectValue"]
               ELSE IF c = "}" THEN popParseState(ps, "endObject")
               ELSE ScanError
         [] ps[n] = "array" ->
               IF c = ","
               THEN [st |-> "beginValue", ps |-> ps, op |-> "arrayValue"]
               ELSE IF c = "]" THEN popParseState(ps, "endArray")
               ELSE ScanError

stateBeginValue(st, ps, c) ==
    CASE c = " " -> [st |-> st, ps |-> ps, op |-> "skip"]
      [] c = "{" -> [st |-> "beginStringOrEmpty", ps |-> Append(ps, "key"),
                    op |-> "beginObject"]
      [] c = "[" -> [st |-> "beginValueOrEmpty", ps |-> Append(ps, "array"),
                    op |-> "beginArray"]
      [] c = "s" -> [st |-> "endValue", ps |-> ps, op |-> "literal"]
      [] OTHER -> ScanError

stateBeginString(st, ps, c) ==
    CASE c = " " -> [st |-> st, ps |-> ps, op |-> "skip"]
      [] c = "s" -> [st |-> "endValue", ps |-> ps, op |-> "literal"]
      [] OTHER -> ScanError

step(st, ps, c) ==
    CASE st = "beginValue" -> stateBeginValue(st, ps, c)
      [] st = "beginValueOrEmpty" ->
            IF c = "]" THEN stateEndValue(ps, c) ELSE stateBeginValue(st, ps, c)
      [] st = "beginStringOrEmpty" ->
            IF c = "}"
            THEN stateEndValue([ps EXCEPT ![Len(ps)] = "value"], c)
            ELSE stateBeginString(st, ps, c)
      [] st = "beginString" -> stateBeginString(st, ps, c)
      [] st = "endValue" -> stateEndValue(ps, c)
      [] st = "endTop" -> stateEndTop(c)
      [] OTHER -> ScanError

\* scanner.eof: the text may end here
eof(st, ps) ==
    /\ st # "error"
    /\ \/ st = "endTop"
       \/ step(st, ps, " ").st = "endTop"

\* checkValid: the scanner accepts the text from token i on
RECURSIVE checkValid(_, _, _, _)
checkValid(text, i, st, ps) ==
    IF i > Len(text) THEN eof(st, ps)
    ELSE LET r == step(st, ps, text[i]) IN
            IF r.op = "error" THEN FALSE
            ELSE checkValid(text, i + 1, r.st, r.ps)

\* json.Valid(data)
Valid(text) == checkValid(text, 1, "beginValue", <<>>)

\* newline(dst, prefix, indent, depth) with prefix "" and indent "  "
RECURSIVE Spaces(_)
Spaces(n) == IF n <= 0 THEN <<>> ELSE <<" ">> \o Spaces(n - 1)
newline(depth) == <<"nl">> \o Spaces(2 * depth)

\* The loop of json.Indent from token i on; dst is what was appended so far.
\* The result is the error and what dst holds when the loop is left.
RECURSIVE indentLoop(_, _, _, _, _, _, _)
indentLoop(src, i, st, ps, needIndent, depth, dst) ==
    IF i > Len(src) THEN [err |-> ~eof(st, ps), dst |-> dst]
    ELSE LET c == src[i]
             r == step(st, ps, c)
             opening == needIndent /\ r.op \notin {"endObject", "endArray"}
             need1 == IF opening THEN FALSE ELSE needIndent
             depth1 == IF opening THEN depth + 1 ELSE depth
             dst1 == IF opening THEN dst \o newline(depth1) ELSE dst
         IN CASE r.op = "error" -> [err |-> TRUE, dst |-> dst]
              [] r.op = "skip" ->
                    indentLoop(src, i + 1, r.st, r.ps, needIndent, depth, dst)
              [] r.op # "error" /\ r.op # "skip" /\ c \in {"{", "["} ->
                    indentLoop(src, i + 1, r.st, r.ps, TRUE, depth1, Append(dst1, c))
              [] r.op # "error" /\ r.op # "skip" /\ c = "," ->
                    indentLoop(src, i + 1, r.st, r.ps, need1, depth1,
                               Append(dst1, c) \o newline(depth1))
              [] r.op # "error" /\ r.op # "skip" /\ c = ":" ->
                    indentLoop(src, i + 1, r.st, r.ps, need1, depth1,
                               Append(dst1, c) \o <<" ">>)
              [] r.op # "error" /\ r.op # "skip" /\ c \in {"}", "]"} ->
                    IF need1
                    THEN indentLoop(src, i + 1, r.st, r.ps, FALSE, depth1,
                                    Append(dst1, c))
                    ELSE indentLoop(src, i + 1, r.st, r.ps, FALSE, depth1 - 1,
                                    Append(dst1 \o newline(depth1 - 1), c))
              [] OTHER ->
                    indentLoop(src, i + 1, r.st, r.ps, need1, depth1, Append(dst1, c))

\* Mutant of Indent: what was appended before the error stays in dst.
IndentKeepsPartial(dst, src) ==
    LET r == indentLoop(src, 1, "beginValue", <<>>, FALSE, 0, dst) IN
       [err |-> r.err, dst |-> r.dst]

\* json.Indent(dst, src, "", "  "): on an error dst is cut back to what it was
Indent(dst, src) ==
    LET r == indentLoop(src, 1, "beginValue", <<>>, FALSE, 0, dst) IN
       [err |-> r.err, dst |-> IF r.err THEN dst ELSE r.dst]

----
\* saveResponse on its own: one call with a response body and a responses
\* directory in which the file of that name is absent or holds older content.

\* Response bodies longer than MaxBody, with nesting, members and elements.
LongBodies ==
    { <<"{", "s", ":", "[", "s", ",", "s", "]", "}">>,
      <<"[", "{", "s", ":", "s", ",", "s", ":", "{", "}", "}", ",", "[", "]", "]", " ">>,
      <<" ", "[", "[", "[", "s", "]", " ", "]", ",", "s", "]">>,
      <<"{", "s", ":", "s", ",", "}">>,
      <<"[", "s", ",", "{", "s", ":", "s", "]", "}">> }

Bodies == Texts(MaxBody) \cup LongBodies

NoFile == [exists |-> FALSE, data |-> <<>>]
OldFile == [exists |-> TRUE, data |-> <<"[", "s", ",", "s", ",", "s", ",", "s", ",", "s", "]">>]

\* os.WriteFile(name, data, 0644): the file is opened with O_CREATE|O_TRUNC and
\* data is written to it.  The open can fail, which leaves the file as it
\* was; the write can stop after any number of tokens; closing can fail
\* after all of them.
WriteFile(file, data) ==
    {[file |-> [exists |-> TRUE, data |-> data], write |-> "ok"],
     [file |-> file, write |-> "failed"]}
    \cup {[file |-> [exists |-> TRUE, data |-> SubSeq(data, 1, k)], write |-> "failed"] :
             k \in 0 .. Len(data)}

\* formattedJSON when saveResponse hands it to os.WriteFile
formattedJSON(response) ==
    LET r == Indent(<<>>, response) IN
       IF r.err THEN r.dst \o response ELSE r.dst

\* saveResponse(fileName, response, path): the outcomes for the file of that name
saveResponse(file, response) ==
    {[file |-> o.file, write |-> o.write,
      err |-> IF o.write = "ok" THEN "nil" ELSE "write"] :
         o \in WriteFile(file, formattedJSON(response))}

SaveInit ==
    /\ DispatchInit
    /\ lg = NoLogger
    /\ \E response \in Bodies, file \in {NoFile, OldFile} :
          unit = [op |-> "saveResponse", pc |-> "call", response |-> response,
                  prior |-> file, file |-> file, write |-> "?", err |-> "?"]

SaveCall ==
    /\ unit.op = "saveResponse"
    /\ unit.pc = "call"
    /\ \E o \in saveResponse(unit.file, unit.response) :
          unit' = [unit EXCEPT !.pc = "return", !.file = o.file,
                               !.write = o.write, !.err = o.err]
    /\ UNCHANGED dispatchVars
    /\ UNCHANGED lg

SaveNext == SaveCall

SaveSpec == SaveInit /\ [][SaveNext]_vars

----
\* work of the build with the logger, for one file taken from the queue, up
\* to the collection of its Result by main.

StatusCodes == {199, 200, 204, 299, 300, 404, 500}

\* Request files: an object, an object with a trailing comma, an empty file
Payloads == { <<"{", "s", ":", "s", "}">>, <<"{", "s", ":", "s", ",", "}">>, <<>> }

\* Reply bodies: an object, text that is no JSON, an empty body
ReplyBodies == { <<"{", "s", ":", "s", "}">>, <<"s", "s">>, <<>> }

\* What the network does with one request.  made: http.NewRequest accepts
\* the URL; arrived: client.Do returns a response; bodyRead: io.ReadAll
\* reads its body to the end.
NoNet == [made |-> FALSE, arrived |-> FALSE, status |-> 0, bodyRead |-> FALSE, body |-> <<>>]
Nets ==
    {NoNet, [NoNet EXCEPT !.made = TRUE]}
    \cup {[made |-> TRUE, arrived |-> TRUE, status |-> st, bodyRead |-> FALSE, body |-> <<>>] :
             st \in StatusCodes}
    \cup {[made |-> TRUE, arrived |-> TRUE, status |-> st, bodyRead |-> TRUE, body |-> b] :
             st \in StatusCodes, b \in ReplyBodies}

Emission(level, msg, file) == [level |-> level, msg |-> msg, file |-> file]

\* Mutant of sendRequestStatus: the status code is dropped with every error.
sendRequestStatusLost(jsonData, net) ==
    LET r == IF ~net.made \/ ~net.arrived \/ ~net.bodyRead
             THEN [body |-> <<>>, status |-> 0,
                   err |-> IF ~net.made THEN "request"
                           ELSE IF ~net.arrived THEN "transport" ELSE "body"]
             ELSE [body |-> net.body,
                   status |-> IF net.status < 200 \/ net.status >= 300 THEN 0 ELSE net.status,
                   err |-> IF net.status < 200 \/ net.status >= 300 THEN "status" ELSE "nil"]
    IN [body |-> r.body, status |-> r.status, err |-> r.err, log |-> <<>>]

\* Mutant of sendRequestStatus: a request that got no response is no error.
sendRequestStatusNoError(jsonData, net) ==
    IF ~net.made
    THEN [body |-> <<>>, status |-> 0, err |-> "request", log |-> <<>>]
    ELSE IF ~net.arrived
    THEN [body |-> <<>>, status |-> 0, err |-> "nil", log |-> <<>>]
    ELSE IF ~net.bodyRead
    THEN [body |-> <<>>, status |-> net.status, err |-> "body", log |-> <<>>]
    ELSE [body |-> net.body, status |-> net.status,
          err |-> IF net.status < 200 \/ net.status >= 300 THEN "status" ELSE "nil",
          log |-> <<>>]

\* Mutant of sendRequestStatus: 300 passes as a success.
sendRequestStatusWide(jsonData, net) ==
    IF ~net.made \/ ~net.arrived \/ ~net.bodyRead
    THEN [body |-> <<>>, status |-> IF net.arrived THEN net.status ELSE 0,
          err |-> IF ~net.made THEN "request"
                  ELSE IF ~net.arrived THEN "transport" ELSE "body",
          log |-> <<>>]
    ELSE [body |-> net.body, status |-> net.status,
          err |-> IF net.status < 200 \/ net.status > 300 THEN "status" ELSE "nil",
          log |-> <<>>]

\* sendRequest(client, url, jsonData, log): the body, the status code and the
\* error it returns, and what it hands to the logger.
sendRequestStatus(jsonData, net) ==
    LET sending == <<Emission("DEBUG", "sending", "")>>
        received == <<Emission("WARN", "received", ""), Emission("DEBUG", "received", "")>>
    IN IF ~net.made
       THEN [body |-> <<>>, status |-> 0, err |-> "request", log |-> <<>>]
       ELSE IF ~net.arrived
       THEN [body |-> <<>>, status |-> 0, err |-> "transport",
             log |-> sending \o <<Emission("ERROR", "request failed", "")>>]
       ELSE IF ~net.bodyRead
       THEN [body |-> <<>>, status |-> net.status, err |-> "body",
             log |-> sending \o <<Emission("ERROR", "reading reply failed", "")>>]
       ELSE IF net.status < 200 \/ net.status >= 300
       THEN [body |-> net.body, status |-> net.status, err |-> "status",
             log |-> sending \o received \o <<Emission("WARN", "server error", "")>>]
       ELSE [body |-> net.body, status |-> net.status, err |-> "nil",
             log |-> sending \o received]

\* What saveResponse of this build hands to the logger
saveResponseLog(fileName, response, write) ==
    <<Emission("DEBUG", "saving", fileName)>>
    \o (IF Indent(<<>>, response).err
        THEN <<Emission("WARN", "not formatted", fileName)>> ELSE <<>>)
    \o <<Emission("DEBUG", "writing", fileName)>>
    \o (IF write = "ok" THEN <<>> ELSE <<Emission("ERROR", "write failed", fileName)>>)

NoErr == [stage |-> "nil", cause |-> "nil"]

\* Result{}: every field at its zero value
ZeroResult ==
    [FileName |-> "", FileSize |-> 0, RequestSize |-> 0, ResponseSize |-> 0,
     Duration |-> 0, StatusCode |-> 0, Err |-> NoErr]

NoSent == [body |-> <<>>, status |-> 0, err |-> "?", log |-> <<>>]

WorkInit ==
    /\ DispatchInit
    /\ lg = NoLogger
    /\ \E file \in {NoFile, OldFile} :
          unit = [op |-> "work", pc |-> "read", fileName |-> "a.json",
                  jsonData |-> <<>>, fileSize |-> 0, net |-> NoNet, sent |-> NoSent,
                  prior |-> file, file |-> file, write |-> "?", res |-> ZeroResult,
                  logged |-> <<>>, elapsed |-> 0, stages |-> <<>>,
                  successCount |-> 0, errorCount |-> 0]

unitUnchanged == UNCHANGED dispatchVars /\ UNCHANGED lg

\* for filePath := range filesChan; jsonData, err := os.ReadFile(filePath)
WorkReadFile ==
    /\ unit.op = "work"
    /\ unit.pc = "read"
    /\ \E readable \in BOOLEAN, payload \in Payloads :
          LET begun == Append(unit.logged, Emission("DEBUG", "begin", unit.fileName))
              u == [unit EXCEPT !.elapsed = @ + 1, !.stages = Append(@, "read")]
          IN IF readable
             THEN unit' = [u EXCEPT !.pc = "validate", !.jsonData = payload,
                                    !.logged = begun]
             ELSE unit' = [u EXCEPT
                      !.pc = "reported",
                      !.logged = Append(begun, Emission("ERROR", "read failed", unit.fileName)),
                      !.res = [ZeroResult EXCEPT !.FileName = unit.fileName,
                                                 !.Duration = u.elapsed,
                                                 !.Err = [stage |-> "read", cause |-> "read"]]]
    /\ unitUnchanged

\* Mutant of WorkValidate: a file that is no JSON is sent all the same.
WorkValidateGoesOn ==
    /\ unit.op = "work"
    /\ unit.pc = "validate"
    /\ \E info \in BOOLEAN :
          LET fileSize == IF info THEN Len(unit.jsonData) ELSE 0 IN
          unit' = [unit EXCEPT !.elapsed = @ + 1, !.stages = Append(@, "validate"),
                               !.fileSize = fileSize, !.pc = "send"]
    /\ unitUnchanged

\* fileInfo, _ := os.Stat(filePath); if !json.Valid(jsonData)
WorkValidate ==
    /\ unit.op = "work"
    /\ unit.pc = "validate"
    /\ \E info \in BOOLEAN :
          LET fileSize == IF info THEN Len(unit.jsonData) ELSE 0
              u == [unit EXCEPT !.elapsed = @ + 1, !.stages = Append(@, "validate"),
                                !.fileSize = fileSize]
          IN IF Valid(unit.jsonData)
             THEN unit' = [u EXCEPT !.pc = "send",
                      !.logged = Append(@, Emission("DEBUG", "file read", unit.fileName))]
             ELSE unit' = [u EXCEPT
                      !.pc = "reported",
                      !.logged = Append(@, Emission("ERROR", "invalid JSON", unit.fileName)),
                      !.res = [ZeroResult EXCEPT !.FileName = unit.fileName,
                                                 !.FileSize = fileSize,
                                                 !.RequestSize = Len(unit.jsonData),
                                                 !.Duration = u.elapsed,
                                                 !.Err = [stage |-> "invalid", cause |-> "invalid"]]]
    /\ unitUnchanged

\* Mutant of WorkSend: work logs nothing about a request that failed.
WorkSendSilent ==
    /\ unit.op = "work"
    /\ unit.pc = "send"
    /\ \E net \in Nets :
          LET r == sendRequestStatus(unit.jsonData, net)
              u == [unit EXCEPT !.elapsed = @ + 1, !.stages = Append(@, "send"),
                                !.net = net,
                                !.sent = [body |-> r.body, status |-> r.status,
                                          err |-> r.err, log |-> <<>>]]
          IN IF r.err = "nil"
             THEN unit' = [u EXCEPT !.pc = "save",
                      !.logged = (@ \o r.log)
                                    \o <<Emission("INFO", "request sent", unit.fileName)>>]
             ELSE unit' = [u EXCEPT
                      !.pc = "reported",
                      !.logged = @ \o r.log,
                      !.res = [ZeroResult EXCEPT !.FileName = unit.fileName,
                                                 !.FileSize = unit.fileSize,
                                                 !.RequestSize = Len(unit.jsonData),
                                                 !.Duration = u.elapsed,
                                                 !.StatusCode = r.status,
                                                 !.Err = [stage |-> "send", cause |-> r.err]]]
    /\ unitUnchanged

\* response, statusCode, err := sendRequest(client, url, jsonData, workerLogger)
WorkSend ==
    /\ unit.op = "work"
    /\ unit.pc = "send"
    /\ \E net \in Nets :
          LET r == sendRequestStatus(unit.jsonData, net)
              u == [unit EXCEPT !.elapsed = @ + 1, !.stages = Append(@, "send"),
                                !.net = net,
                                !.sent = [body |-> r.body, status |-> r.status,
                                          err |-> r.err, log |-> <<>>]]
          IN IF r.err = "nil"
             THEN unit' = [u EXCEPT !.pc = "save",
                      !.logged = (@ \o r.log)
                                    \o <<Emission("INFO", "request sent", unit.fileName)>>]
             ELSE unit' = [u EXCEPT
                      !.pc = "reported",
                      !.logged = (@ \o r.log)
                                    \o <<Emission("ERROR", "send failed", unit.fileName)>>,
                      !.res = [ZeroResult EXCEPT !.FileName = unit.fileName,
                                                 !.FileSize = unit.fileSize,
                                                 !.RequestSize = Len(unit.jsonData),
                                                 !.Duration = u.elapsed,
                                                 !.StatusCode = r.status,
                                                 !.Err = [stage |-> "send", cause |-> r.err]]]
    /\ unitUnchanged

\* err = saveResponse(fileName, response, responsesDir, workerLogger)
WorkSave ==
    /\ unit.op = "work"
    /\ unit.pc = "save"
    /\ \E o \in saveResponse(unit.file, unit.sent.body) :
          LET u == [unit EXCEPT !.elapsed = @ + 1, !.stages = Append(@, "save"),
                                !.file = o.file, !.write = o.write,
                                !.pc = "reported"]
              saved == unit.logged \o saveResponseLog(unit.fileName, unit.sent.body, o.write)
              res == [FileName |-> unit.fileName, FileSize |-> unit.fileSize,
                      RequestSize |-> Len(unit.jsonData),
                      ResponseSize |-> Len(unit.sent.body),
                      Duration |-> u.elapsed, StatusCode |-> unit.sent.status,
                      Err |-> NoErr]
          IN IF o.err = "nil"
             THEN unit' = [u EXCEPT
                      !.logged = Append(saved, Emission("INFO", "reply saved", unit.fileName)),
                      !.res = res]
             ELSE unit' = [u EXCEPT
                      !.logged = Append(saved, Emission("ERROR", "save failed", unit.fileName)),
                      !.res = [res EXCEPT !.Err = [stage |-> "save", cause |-> o.err]]]
    /\ unitUnchanged

\* for result := range resultsChan: the Result is counted
WorkCollect ==
    /\ unit.op = "work"
    /\ unit.pc = "reported"
    /\ unit' = [unit EXCEPT
          !.pc = "collected",
          !.errorCount = IF unit.res.Err # NoErr THEN @ + 1 ELSE @,
          !.successCount = IF unit.res.Err # NoErr THEN @ ELSE @ + 1]
    /\ unitUnchanged

WorkNext ==
    \/ WorkReadFile
    \/ WorkValidate
    \/ WorkSend
    \/ WorkSave
    \/ WorkCollect

WorkSpec == WorkInit /\ [][WorkNext]_vars

----
\* The logger: handles, the operations on them and what the sink receives.
\* The calls of one goroutine, each run to its end before the next.

\* Bounds: the handles that exist, the lines the sink holds.
MaxHandles == 2
MaxLines == 1

NOLOG == -1
STDOUT == 0
DEBUG == 1
INFO == 2
WARN == 3
ERROR == 4
FATAL == 5

Levels == NOLOG .. FATAL

levelNames ==
    [l \in Levels |->
        CASE l = NOLOG -> "NOLOG" [] l = STDOUT -> "STDOUT" [] l = DEBUG -> "DEBUG"
          [] l = INFO -> "INFO" [] l = WARN -> "WARN" [] l = ERROR -> "ERROR"
          [] l = FATAL -> "FATAL"]

\* map[string]interface{}: keys "a" and "b"; the value "chan" is one that
\* json.Marshal cannot encode.
EmptyFields == [k \in {} |-> ""]
Map1(k, v) == [x \in {k} |-> v]
Map2(va, vb) == [x \in {"a", "b"} |-> IF x = "a" THEN va ELSE vb]

\* The field mappings handed to WithFields
DerivedFields == {EmptyFields, Map1("a", "v2"), Map1("b", "v2")}

\* The field mappings handed to one call of Debug, Info, Warn, Error or Fatal
ArgLists ==
    { <<>>,
      <<Map1("a", "v3")>>,
      <<Map2("v3", "v3"), Map1("a", "v4")>>,
      <<Map1("b", "v4"), Map2("v3", "v3")>>,
      <<Map1("b", "chan")>> }

\* The sinks SetOutput can give a handle: a writer that keeps what it gets,
\* none.  A handle can also have "discard", io.Discard, from New.
Outputs == {"buf", "nil"}

\* The call made last: none, a call of SetLevel, of SetOutput, of WithFields,
\* a call that logs
NoCall == [op |-> "none", h |-> 0, level |-> NOLOG, msg |-> "", args |-> <<>>, before |-> 0]

\* The fields of the first handle: none as New leaves them, or some as in
\* &Logger{level: ..., output: buf, fields: ...}.  Its sink is as New leaves
\* it: io.Discard with the level NOLOG.  parent is the handle a handle was
\* derived from, 0 for the first.
BaseFields == {EmptyFields, Map1("a", "v1")}

LogInit ==
    /\ DispatchInit
    /\ unit = NoUnit
    /\ \E level \in Levels, fields \in BaseFields :
          lg = [handles |-> <<[level |-> level,
                               output |-> IF level = NOLOG THEN "discard" ELSE "buf",
                               fields |-> fields, parent |-> 0]>>,
                sink |-> <<>>, last |-> NoCall, exited |-> FALSE]

logUnchanged == UNCHANGED dispatchVars /\ UNCHANGED unit

Handles == 1 .. Len(lg.handles)

\* The process has not exited, and the sink has room for a line
LogRunning == ~lg.exited /\ Len(lg.sink) < MaxLines

\* for k, v := range g { f[k] = v }
Overlay(f, g) ==
    [k \in DOMAIN f \cup DOMAIN g |-> IF k \in DOMAIN g THEN g[k] ELSE f[k]]

\* func (l *Logger) SetLevel(level Level)
SetLevel(h) ==
    /\ LogRunning
    /\ \E level \in Levels :
          lg' = [lg EXCEPT !.handles[h].level = level,
                           !.last = [NoCall EXCEPT !.op = "SetLevel", !.h = h]]
    /\ logUnchanged

\* func (l *Logger) SetOutput(w io.Writer)
SetOutput(h) ==
    /\ LogRunning
    /\ \E w \in Outputs :
          lg' = [lg EXCEPT !.handles[h].output = w,
                           !.last = [NoCall EXCEPT !.op = "SetOutput", !.h = h]]
    /\ logUnchanged

\* Mutant of WithFields: the given fields are stored into the map of the parent.
WithFieldsShared(h) ==
    /\ LogRunning
    /\ Len(lg.handles) < MaxHandles
    /\ \E fields \in DerivedFields :
          LET newFields == Overlay(lg.handles[h].fields, fields) IN
             lg' = [lg EXCEPT
                      !.handles = Append([@ EXCEPT ![h].fields = newFields],
                                         [level |-> lg.handles[h].level,
                                          output |-> lg.handles[h].output,
                                          fields |-> newFields, parent |-> h]),
                      !.last = [NoCall EXCEPT !.op = "WithFields", !.h = h,
                                              !.args = <<fields>>]]
    /\ logUnchanged

\* func (l *Logger) WithFields(fields map[string]interface{}) *Logger
WithFields(h) ==
    /\ LogRunning
    /\ Len(lg.handles) < MaxHandles
    /\ \E fields \in DerivedFields :
          LET newFields == Overlay(Overlay(EmptyFields, lg.handles[h].fields), fields) IN
             lg' = [lg EXCEPT
                      !.handles = Append(@, [level |-> lg.handles[h].level,
                                             output |-> lg.handles[h].output,
                                             fields |-> newFields, parent |-> h]),
                      !.last = [NoCall EXCEPT !.op = "WithFields", !.h = h,
                                              !.args = <<fields>>]]
    /\ logUnchanged

\* Mutant of mergeFields: the first mapping wins on a key both have.
RECURSIVE mergeFieldsFirstWins(_)
mergeFieldsFirstWins(fields) ==
    IF Len(fields) = 0 THEN EmptyFields
    ELSE Overlay(mergeFieldsFirstWins(Tail(fields)), Head(fields))

\* func mergeFields(fields []map[string]interface{}) map[string]interface{}
RECURSIVE mergeFields(_)
mergeFields(fields) ==
    IF Len(fields) = 0 THEN EmptyFields
    ELSE IF Len(fields) = 1 THEN fields[1]
    ELSE Overlay(mergeFields(SubSeq(fields, 1, Len(fields) - 1)), fields[Len(fields)])

\* json.Marshal(entry)
Encodable(fields) == \A k \in DOMAIN fields : fields[k] # "chan"

\* Mutant of log: a record passes when its level is above the level of the handle.
logAbove(l, sink, level, msg, fields) ==
    IF level <= l.level THEN sink
    ELSE IF l.output = "nil" THEN sink
    ELSE IF l.output = "discard" THEN sink
    ELSE LET allFields == Overlay(Overlay(EmptyFields, l.fields), fields) IN
       IF ~Encodable(allFields)
       THEN Append(sink, [kind |-> "text", timestamp |-> "now",
                          level |-> levelNames[level], message |-> msg,
                          fields |-> EmptyFields, caller |-> ""])
       ELSE Append(sink, [kind |-> "json", timestamp |-> "now",
                          level |-> levelNames[level], message |-> msg,
                          fields |-> allFields, caller |-> "caller"])

\* Mutant of log: a record that cannot be encoded is dropped.
logNoFallback(l, sink, level, msg, fields) ==
    IF level < l.level THEN sink
    ELSE IF l.output = "nil" THEN sink
    ELSE IF l.output = "discard" THEN sink
    ELSE LET allFields == Overlay(Overlay(EmptyFields, l.fields), fields) IN
       IF ~Encodable(allFields)
       THEN sink
       ELSE Append(sink, [kind |-> "json", timestamp |-> "now",
                          level |-> levelNames[level], message |-> msg,
                          fields |-> allFields, caller |-> "caller"])

\* func (l *Logger) log(level Level, msg string, fields map[string]interface{}):
\* what the sink holds after the call
log(l, sink, level, msg, fields) ==
    IF level < l.level THEN sink
    ELSE IF l.output = "nil" THEN sink
    ELSE IF l.output = "discard" THEN sink
    ELSE LET allFields == Overlay(Overlay(EmptyFields, l.fields), fields) IN
       IF ~Encodable(allFields)
       THEN Append(sink, [kind |-> "text", timestamp |-> "now",
                          level |-> levelNames[level], message |-> msg,
                          fields |-> EmptyFields, caller |-> ""])
       ELSE Append(sink, [kind |-> "json", timestamp |-> "now",
                          level |-> levelNames[level], message |-> msg,
                          fields |-> allFields, caller |-> "caller"])

\* l.log(level, msg, mergeFields(fields)), and os.Exit(1) after it in Fatal
LogCall(h, level, exits) ==
    /\ LogRunning
    /\ \E args \in ArgLists :
          lg' = [lg EXCEPT
                   !.sink = log(lg.handles[h], @, level, "msg", mergeFields(args)),
                   !.last = [op |-> "log", h |-> h, level |-> level, msg |-> "msg",
                             args |-> args, before |-> Len(lg.sink)],
                   !.exited = exits]
    /\ logUnchanged

\* Mutant of Fatal: the call returns to its caller.
FatalReturns(h) == LogCall(h, FATAL, FALSE)

Debug(h) == LogCall(h, DEBUG, FALSE)
Info(h) == LogCall(h, INFO, FALSE)
Warn(h) == LogCall(h, WARN, FALSE)
Error(h) == LogCall(h, ERROR, FALSE)
Fatal(h) == LogCall(h, FATAL, TRUE)

LogNext ==
    \/ \E h \in Handles : SetLevel(h)
    \/ \E h \in Handles : SetOutput(h)
    \/ \E h \in Handles : WithFields(h)
    \/ \E h \in Handles : Debug(h)
    \/ \E h \in Handles : Info(h)
    \/ \E h \in Handles : Warn(h)
    \/ \E h \in Handles : Error(h)
    \/ \E h \in Handles : Fatal(h)

LogSpec == LogInit /\ [][LogNext]_vars

----
\* The logger under concurrent calls, each call taken step by step.  A
\* goroutine logs through the first handle, as main and the goroutine that
\* waits for the workers do, or derives a handle from it and logs through
\* that one from then on, as work does.

\* Bounds: the goroutines, the calls of log each of them makes.
MaxGoroutines == 2
MaxCalls == 1

Goroutines == 1 .. MaxGoroutines

\* The levels of the emissions: one below the level of the first handle,
\* which is WARN, one above
RaceLevels == {INFO, ERROR}

\* A goroutine between calls; h is the handle it logs through
Idle == [pc |-> "idle", h |-> 1, level |-> NOLOG, overlap |-> FALSE, made |-> 0]

\* The goroutine has returned from a call
Returned(c) == [Idle EXCEPT !.h = c.h, !.made = c.made]

RaceInit ==
    /\ DispatchInit
    /\ unit = NoUnit
    /\ lg = [handles |-> <<[level |-> WARN, output |-> "buf",
                             fields |-> EmptyFields, parent |-> 0]>>,
             mu |-> <<0>>, sink |-> <<>>, writing |-> {},
             calls |-> [g \in Goroutines |-> Idle],
             accepted |-> 0, sets |-> 0, panicked |-> FALSE]

\* SetOutput called by goroutine g on the handle it logs through, with a
\* writer or with nil, once in a run: l.mu.Lock(); l.output = w; l.mu.Unlock()
RaceSetOutput(g) ==
    /\ ~lg.panicked
    /\ lg.calls[g].pc = "idle"
    /\ lg.sets = 0
    /\ lg.mu[lg.calls[g].h] = 0
    /\ \E w \in Outputs :
          lg' = [lg EXCEPT !.handles[lg.calls[g].h].output = w, !.sets = @ + 1]
    /\ logUnchanged

\* WithFields called on the first handle by goroutine g, as work does when
\* it starts: l.mu.Lock() of the parent, a new Logger with a mutex of its own
RaceWithFields(g) ==
    /\ ~lg.panicked
    /\ lg.calls[g].pc = "idle"
    /\ lg.calls[g].h = 1
    /\ lg.calls[g].made = 0
    /\ lg.mu[1] = 0
    /\ lg' = [lg EXCEPT
                !.handles = Append(@, [level |-> lg.handles[1].level,
                                       output |-> lg.handles[1].output,
                                       fields |-> Overlay(lg.handles[1].fields,
                                                          Map1("a", "v1")),
                                       parent |-> 1]),
                !.mu = Append(@, 0),
                !.calls[g].h = Len(lg.handles) + 1]
    /\ logUnchanged

\* log: if level < l.level { return }
RaceLogEnter(g) ==
    /\ ~lg.panicked
    /\ lg.calls[g].pc = "idle"
    /\ lg.calls[g].made < MaxCalls
    /\ \E level \in RaceLevels :
          IF level < lg.handles[lg.calls[g].h].level
          THEN lg' = [lg EXCEPT !.calls[g].made = @ + 1]
          ELSE lg' = [lg EXCEPT
                        !.calls[g] = [@ EXCEPT !.pc = "output", !.level = level,
                                               !.made = @ + 1],
                        !.accepted = @ + 1]
    /\ logUnchanged

\* log: l.mu.Lock(); output := l.output; l.mu.Unlock(); if output == nil { return }
RaceLogOutput(g) ==
    /\ ~lg.panicked
    /\ lg.calls[g].pc = "output"
    /\ lg.mu[lg.calls[g].h] = 0
    /\ IF lg.handles[lg.calls[g].h].output = "nil"
       THEN lg' = [lg EXCEPT !.calls[g] = Returned(@), !.accepted = @ - 1]
       ELSE lg' = [lg EXCEPT !.calls[g].pc = "lock"]
    /\ logUnchanged

\* Mutant of RaceLogLock: the lock is taken without waiting for it.
RaceLogLockNoWait(g) ==
    /\ ~lg.panicked
    /\ lg.calls[g].pc = "lock"
    /\ lg' = [lg EXCEPT !.mu[lg.calls[g].h] = g, !.calls[g].pc = "locked"]
    /\ logUnchanged

\* log: l.mu.Lock(); defer l.mu.Unlock()
RaceLogLock(g) ==
    /\ ~lg.panicked
    /\ lg.calls[g].pc = "lock"
    /\ lg.mu[lg.calls[g].h] = 0
    /\ lg' = [lg EXCEPT !.mu[lg.calls[g].h] = g, !.calls[g].pc = "locked"]
    /\ logUnchanged

\* log: fmt.Fprintln(l.output, string(data)) starts to write; a nil l.output
\* panics.  A write that runs while another one runs overlaps with it.
RaceLogWrite(g) ==
    /\ ~lg.panicked
    /\ lg.calls[g].pc = "locked"
    /\ IF lg.handles[lg.calls[g].h].output = "nil"
       THEN lg' = [lg EXCEPT !.panicked = TRUE]
       ELSE lg' = [lg EXCEPT
                     !.writing = @ \cup {g},
                     !.calls = [k \in Goroutines |->
                                   IF k = g
                                   THEN [@[k] EXCEPT !.pc = "writing",
                                                     !.overlap = lg.writing # {}]
                                   ELSE IF k \in lg.writing
                                   THEN [@[k] EXCEPT !.overlap = TRUE]
                                   ELSE @[k]]]
    /\ logUnchanged

\* log: the write ends and the deferred l.mu.Unlock() runs.  A write that
\* overlapped with another one can leave a line that is not whole.
RaceLogWritten(g) ==
    /\ ~lg.panicked
    /\ lg.calls[g].pc = "writing"
    /\ \E whole \in (IF lg.calls[g].overlap THEN BOOLEAN ELSE {TRUE}) :
          lg' = [lg EXCEPT
                   !.sink = Append(@, [h |-> lg.calls[g].h,
                                       level |-> levelNames[lg.calls[g].level],
                                       whole |-> whole]),
                   !.writing = @ \ {g},
                   !.mu[lg.calls[g].h] = 0,
                   !.calls[g] = Returned(@)]
    /\ logUnchanged

RaceNext ==
    \/ \E g \in Goroutines : RaceSetOutput(g)
    \/ \E g \in Goroutines : RaceWithFields(g)
    \/ \E g \in Goroutines : RaceLogEnter(g)
    \/ \E g \in Goroutines : RaceLogOutput(g)
    \/ \E g \in Goroutines : RaceLogLock(g)
    \/ \E g \in Goroutines : RaceLogWrite(g)
    \/ \E g \in Goroutines : RaceLogWritten(g)

RaceSpec == RaceInit /\ [][RaceNext]_vars

----
\* New: the construction of a logger from a level name and the name of the
\* output file.  A name is the sequence of its characters.

LowerCase == <<"a", "b", "c", "d", "e", "f", "g", "h", "i", "j", "k", "l", "m",
               "n", "o", "p", "q", "r", "s", "t", "u", "v", "w", "x", "y", "z">>
UpperCase == <<"A", "B", "C", "D", "E", "F", "G", "H", "I", "J", "K", "L", "M",
               "N", "O", "P", "Q", "R", "S", "T", "U", "V", "W", "X", "Y", "Z">>

\* Mutant of ToLower: the name is left as it is.
ToLowerSame(name) == name

\* strings.ToLower(level)
ToLower(name) ==
    [i \in 1 .. Len(name) |->
        IF \E j \in 1 .. Len(UpperCase) : UpperCase[j] = name[i]
        THEN LowerCase[CHOOSE j \in 1 .. Len(UpperCase) : UpperCase[j] = name[i]]
        ELSE name[i]]

\* The names the cases of the switch in New compare with
fatalName == <<"f", "a", "t", "a", "l">>
errorName == <<"e", "r", "r", "o", "r">>
warnName == <<"w", "a", "r", "n">>
warningName == <<"w", "a", "r", "n", "i", "n", "g">>
infoName == <<"i", "n", "f", "o">>
debugName == <<"d", "e", "b", "u", "g">>
stdoutName == <<"s", "t", "d", "o", "u", "t">>

\* The level names New is called with
LevelNames ==
    { debugName, <<"D", "E", "B", "U", "G">>, <<"D", "e", "b", "u", "g">>,
      infoName, <<"I", "N", "F", "O">>, <<"I", "n", "f", "o">>,
      warnName, <<"W", "A", "R", "N">>, <<"W", "a", "r", "n">>,
      warningName, <<"W", "a", "r", "n", "i", "n", "g">>,
      errorName, <<"E", "R", "R", "O", "R">>, <<"e", "r", "r", "O", "R">>,
      fatalName, <<"F", "A", "T", "A", "L">>, <<"F", "a", "t", "a", "l">>,
      stdoutName, <<"S", "T", "D", "O", "U", "T">>, <<"S", "t", "d", "O", "u", "t">>,
      <<>>, <<"u", "n", "k", "n", "o", "w", "n">>, <<"n", "o", "l", "o", "g">>,
      <<"t", "r", "a", "c", "e">>, <<"w", "a", "r", "n", "s">>,
      <<" ", "i", "n", "f", "o">>, <<"I", "N", "F">> }

\* The names of output files New is called with, and the files os.OpenFile
\* can open for appending: the empty name is never one of them
FileNames == {"", "log.json", "/dir/test.log"}
Openable == SUBSET {"log.json", "/dir/test.log"}

\* The sinks of a handle New returns
Stdout == [kind |-> "os.Stdout", name |-> ""]
Stderr == [kind |-> "os.Stderr", name |-> ""]
Discard == [kind |-> "io.Discard", name |-> ""]
OpenedFile(name) == [kind |-> "file", name |-> name]

\* Mutant of New: no handle is returned when the file cannot be opened.
NewNilOnError(level, outputFile, fs) ==
    LET lower == ToLower(level)
        logLevel == IF lower = fatalName THEN FATAL
                    ELSE IF lower = errorName THEN ERROR
                    ELSE IF lower = warnName \/ lower = warningName THEN WARN
                    ELSE IF lower = infoName THEN INFO
                    ELSE DEBUG
    IN IF lower = stdoutName
       THEN [logger |-> <<[level |-> STDOUT, output |-> Stdout, fields |-> EmptyFields]>>,
             err |-> FALSE]
       ELSE IF lower \notin {fatalName, errorName, warnName, warningName, infoName, debugName}
       THEN [logger |-> <<[level |-> NOLOG, output |-> Discard, fields |-> EmptyFields]>>,
             err |-> FALSE]
       ELSE IF outputFile \notin fs
       THEN [logger |-> <<>>, err |-> TRUE]
       ELSE [logger |-> <<[level |-> logLevel, output |-> OpenedFile(outputFile),
                           fields |-> EmptyFields]>>,
             err |-> FALSE]

\* func New(level string, outputFile string) (*Logger, error): the handle, a
\* sequence of one handle, or none for nil, and whether the error is not nil.
\* The fields of the handle of "stdout" and of the default case are a nil
\* map, which reads as the empty map.
New(level, outputFile, fs) ==
    LET lower == ToLower(level)
        logLevel == IF lower = fatalName THEN FATAL
                    ELSE IF lower = errorName THEN ERROR
                    ELSE IF lower = warnName \/ lower = warningName THEN WARN
                    ELSE IF lower = infoName THEN INFO
                    ELSE DEBUG
    IN IF lower = stdoutName
       THEN [logger |-> <<[level |-> STDOUT, output |-> Stdout, fields |-> EmptyFields]>>,
             err |-> FALSE]
       ELSE IF lower \notin {fatalName, errorName, warnName, warningName, infoName, debugName}
       THEN [logger |-> <<[level |-> NOLOG, output |-> Discard, fields |-> EmptyFields]>>,
             err |-> FALSE]
       ELSE IF outputFile \notin fs
       THEN [logger |-> <<[level |-> logLevel, output |-> Stderr, fields |-> EmptyFields]>>,
             err |-> TRUE]
       ELSE [logger |-> <<[level |-> logLevel, output |-> OpenedFile(outputFile),
                           fields |-> EmptyFields]>>,
             err |-> FALSE]

NewInit ==
    /\ DispatchInit
    /\ lg = NoLogger
    /\ \E level \in LevelNames, outputFile \in FileNames, fs \in Openable :
          unit = [op |-> "New", pc |-> "call", level |-> level,
                  outputFile |-> outputFile, fs |-> fs,
                  logger |-> <<>>, err |-> FALSE]

NewCall ==
    /\ unit.op = "New"
    /\ unit.pc = "call"
    /\ LET r == New(unit.level, unit.outputFile, unit.fs) IN
          unit' = [unit EXCEPT !.pc = "return", !.logger = r.logger, !.err = r.err]
    /\ UNCHANGED dispatchVars
    /\ UNCHANGED lg

NewNext == NewCall

NewSpec == NewInit /\ [][NewNext]_vars

----
\* config: the command line is a sequence of flags, each with its value as
\* it was typed; the value of an integer flag is the sequence of its
\* characters, the value of another flag a sequence of one text.

\* Bound: the flags on the command line.
MaxArgs == 2

Digits == <<"0", "1", "2", "3", "4", "5", "6", "7", "8", "9">>
IsDigit(c) == \E j \in 1 .. Len(Digits) : Digits[j] = c
DigitValue(c) == (CHOOSE j \in 1 .. Len(Digits) : Digits[j] = c) - 1

\* flag.Int: whether the value is one strconv can parse, and the integer
IsNumeral(text) ==
    LET digits == IF Len(text) > 0 /\ text[1] \in {"-", "+"} THEN Tail(text) ELSE text
    IN Len(digits) > 0 /\ \A i \in 1 .. Len(digits) : IsDigit(digits[i])

RECURSIVE Magnitude(_)
Magnitude(digits) ==
    IF Len(digits) = 0 THEN 0
    ELSE 10 * Magnitude(SubSeq(digits, 1, Len(digits) - 1)) + DigitValue(digits[Len(digits)])

Atoi(text) ==
    IF text[1] = "-" THEN 0 - Magnitude(Tail(text))
    ELSE IF text[1] = "+" THEN Magnitude(Tail(text))
    ELSE Magnitude(text)

\* runtime.NumCPU() of the hosts
CPUs == {1, 2}

\* The flags a command line is made of
Arg(name, value) == [flag |-> name, value |-> value]
Args ==
    {Arg("url", <<"https://test.com">>)}
    \cup {Arg("requests", <<v>>) : v \in {"", "req"}}
    \cup {Arg("responses", <<v>>) : v \in {"", "res"}}
    \cup {Arg("timeout", v) : v \in {<<"-", "1">>, <<"0">>, <<"6", "0">>, <<"x">>}}
    \cup {Arg("workers", v) : v \in {<<"0">>, <<"1">>, <<"2">>, <<"3">>}}
    \cup {Arg("log", <<v>>) : v \in {"", "debug", "stdout", "invalid", "DEBUG", "fatal"}}

RECURSIVE CommandLines(_)
CommandLines(n) ==
    IF n = 0 THEN {<<>>}
    ELSE CommandLines(n - 1)
         \cup {Append(line, a) : line \in {l \in CommandLines(n - 1) : Len(l) = n - 1},
                                 a \in Args}

\* The values the flags have before flag.Parse(): the defaults
Defaults(numCPU) ==
    [url |-> "http://localhost:8080/execute", requests |-> "requests",
     responses |-> "responses", timeout |-> 30, workers |-> numCPU, log |-> "",
     exit |-> FALSE]

\* flag.Parse(): the flags are set in the order of the command line; a value
\* of an integer flag that is no integer ends the process (flag.ExitOnError)
RECURSIVE Parse(_, _)
Parse(line, values) ==
    IF Len(line) = 0 \/ values.exit THEN values
    ELSE LET a == Head(line) IN
       IF a.flag \in {"timeout", "workers"}
       THEN IF IsNumeral(a.value)
            THEN Parse(Tail(line), [values EXCEPT ![a.flag] = Atoi(a.value)])
            ELSE [values EXCEPT !.exit = TRUE]
       ELSE Parse(Tail(line), [values EXCEPT ![a.flag] = a.value[1]])

\* &Flags{}, &Config{}
EmptyFlags ==
    [URL |-> "", RequestsDir |-> "", ResponsesDir |-> "", Timeout |-> 0,
     Workers |-> 0, Log |-> ""]

levels == {"", "stdout", "debug", "info", "warn", "error"}

\* Mutant of parse: the number of workers is not checked against the CPUs.
parseWorkersUnbounded(line, numCPU) ==
    LET v == Parse(line, Defaults(numCPU)) IN
    IF v.exit THEN [exit |-> TRUE, flags |-> <<>>, err |-> FALSE]
    ELSE IF v.requests = "" THEN [exit |-> FALSE, flags |-> <<EmptyFlags>>, err |-> TRUE]
    ELSE IF v.responses = "" THEN [exit |-> FALSE, flags |-> <<EmptyFlags>>, err |-> TRUE]
    ELSE IF v.timeout <= 0 THEN [exit |-> FALSE, flags |-> <<EmptyFlags>>, err |-> TRUE]
    ELSE IF v.workers < 1
    THEN [exit |-> FALSE, flags |-> <<EmptyFlags>>, err |-> TRUE]
    ELSE IF v.log \notin levels THEN [exit |-> FALSE, flags |-> <<EmptyFlags>>, err |-> TRUE]
    ELSE [exit |-> FALSE,
          flags |-> <<[URL |-> v.url, RequestsDir |-> v.requests,
                       ResponsesDir |-> v.responses, Timeout |-> v.timeout,
                       Workers |-> v.workers, Log |-> v.log]>>,
          err |-> FALSE]

\* func parse() (*Flags, error): the record, a sequence of one record, or
\* none for nil, and whether the error is not nil
parse(line, numCPU) ==
    LET v == Parse(line, Defaults(numCPU)) IN
    IF v.exit THEN [exit |-> TRUE, flags |-> <<>>, err |-> FALSE]
    ELSE IF v.requests = "" THEN [exit |-> FALSE, flags |-> <<EmptyFlags>>, err |-> TRUE]
    ELSE IF v.responses = "" THEN [exit |-> FALSE, flags |-> <<EmptyFlags>>, err |-> TRUE]
    ELSE IF v.timeout <= 0 THEN [exit |-> FALSE, flags |-> <<EmptyFlags>>, err |-> TRUE]
    ELSE IF v.workers < 1 \/ numCPU < v.workers
    THEN [exit |-> FALSE, flags |-> <<EmptyFlags>>, err |-> TRUE]
    ELSE IF v.log \notin levels THEN [exit |-> FALSE, flags |-> <<EmptyFlags>>, err |-> TRUE]
    ELSE [exit |-> FALSE,
          flags |-> <<[URL |-> v.url, RequestsDir |-> v.requests,
                       ResponsesDir |-> v.responses, Timeout |-> v.timeout,
                       Workers |-> v.workers, Log |-> v.log]>>,
          err |-> FALSE]

\* func New() (*Config, error) of package config
configNew(line, numCPU) ==
    LET r == parse(line, numCPU) IN
    IF r.exit THEN [exit |-> TRUE, flags |-> <<>>, config |-> <<>>, err |-> FALSE]
    ELSE IF r.err
    THEN [exit |-> FALSE, flags |-> r.flags, config |-> <<EmptyFlags>>, err |-> TRUE]
    ELSE [exit |-> FALSE, flags |-> r.flags,
          config |-> <<[URL |-> r.flags[1].URL, RequestsDir |-> r.flags[1].RequestsDir,
                        ResponsesDir |-> r.flags[1].ResponsesDir,
                        Timeout |-> r.flags[1].Timeout, Workers |-> r.flags[1].Workers,
                        Log |-> r.flags[1].Log]>>,
          err |-> FALSE]

ConfigInit ==
    /\ DispatchInit
    /\ lg = NoLogger
    /\ \E line \in CommandLines(MaxArgs), numCPU \in CPUs :
          unit = [op |-> "config.New", pc |-> "call", line |-> line, numCPU |-> numCPU,
                  flags |-> <<>>, config |-> <<>>, err |-> FALSE]

ConfigCall ==
    /\ unit.op = "config.New"
    /\ unit.pc = "call"
    /\ LET r == configNew(unit.line, unit.numCPU) IN
          unit' = [unit EXCEPT !.pc = IF r.exit THEN "exit" ELSE "return",
                               !.flags = r.flags, !.config = r.config, !.err = r.err]
    /\ UNCHANGED dispatchVars
    /\ UNCHANGED lg

ConfigNext == ConfigCall

ConfigSpec == ConfigInit /\ [][ConfigNext]_vars

----
\* statistic: the Results of resultsChan are received one by one and the
\* totals are logged when the channel is closed and empty.  A time.Duration
\* is counted in tenths of a millisecond.

\* Bound: the Results in resultsChan.
MaxResults == 2

Millisecond == 10
Hour == 60 * 60 * 1000 * Millisecond

\* func (d Duration) Milliseconds() int64
Milliseconds(d) == d \div Millisecond

\* The Results work produces: the durations, and the other fields
Durations == {5, 25, 3 * Millisecond, Hour + 5, 2 * Hour}
StatResults ==
    {[ZeroResult EXCEPT !.FileName = "a.json", !.FileSize = 5, !.RequestSize = 5,
                        !.ResponseSize = size, !.Duration = d, !.StatusCode = code]
        : size \in {0, 3}, d \in Durations, code \in {200, 204}}
    \cup
    {[ZeroResult EXCEPT !.FileName = "a.json", !.FileSize = 5, !.RequestSize = 5,
                        !.ResponseSize = size, !.Duration = d, !.StatusCode = code,
                        !.Err = [stage |-> "send", cause |-> "status"]]
        : size \in {0, 3}, d \in {25, 2 * Hour}, code \in {0, 500}}

RECURSIVE ResultQueues(_)
ResultQueues(n) ==
    IF n = 0 THEN {<<>>}
    ELSE ResultQueues(n - 1)
         \cup {Append(q, r) : q \in {x \in ResultQueues(n - 1) : Len(x) = n - 1},
                              r \in StatResults}

\* statusCodeStats[code]++ on a map that has no entry for a code not seen
Increment(stats, code) ==
    [c \in DOMAIN stats \cup {code} |-> IF c = code
                                        THEN (IF c \in DOMAIN stats THEN stats[c] ELSE 0) + 1
                                        ELSE stats[c]]

\* The variables of statistic before the loop
StatStart ==
    [successCount |-> 0, errorCount |-> 0, totalDuration |-> 0, totalFileSize |-> 0,
     totalRequestSize |-> 0, totalResponseSize |-> 0,
     statusCodeStats |-> [c \in {} |-> 0],
     durationStats |-> [min |-> Hour, max |-> 0, sum |-> 0]]

\* the body of for result := range resultsChan
receive(st, result) ==
    IF result.Err # NoErr
    THEN [st EXCEPT !.errorCount = @ + 1]
    ELSE [st EXCEPT
            !.successCount = @ + 1,
            !.totalDuration = @ + result.Duration,
            !.totalFileSize = @ + result.FileSize,
            !.totalRequestSize = @ + result.RequestSize,
            !.totalResponseSize = @ + result.ResponseSize,
            !.statusCodeStats = IF result.StatusCode > 0
                                THEN Increment(@, result.StatusCode) ELSE @,
            !.durationStats = [min |-> IF result.Duration < @.min THEN result.Duration ELSE @.min,
                               max |-> IF result.Duration > @.max THEN result.Duration ELSE @.max,
                               sum |-> @.sum + result.Duration]]

\* The fields of the record "Статистика обработки файлов", logged when at
\* least one Result was a success
NoStatistics == <<>>
statistics(st) ==
    IF st.successCount > 0
    THEN <<[total_files |-> st.successCount + st.errorCount,
            successful |-> st.successCount,
            failed |-> st.errorCount,
            avg_duration_ms |-> Milliseconds(st.durationStats.sum \div st.successCount),
            min_duration_ms |-> Milliseconds(st.durationStats.min),
            max_duration_ms |-> Milliseconds(st.durationStats.max),
            total_file_size |-> st.totalFileSize,
            total_request_size |-> st.totalRequestSize,
            total_response_size |-> st.totalResponseSize,
            status_codes |-> st.statusCodeStats]>>
    ELSE NoStatistics

StatInit ==
    /\ DispatchInit
    /\ lg = NoLogger
    /\ \E queue \in ResultQueues(MaxResults) :
          unit = [op |-> "statistic", pc |-> "range", queue |-> queue,
                  received |-> <<>>, st |-> StatStart, logged |-> NoStatistics]

\* for result := range resultsChan: one Result is received
StatReceive ==
    /\ unit.op = "statistic"
    /\ unit.pc = "range"
    /\ unit.queue # <<>>
    /\ unit' = [unit EXCEPT !.queue = Tail(@),
                            !.received = Append(@, Head(unit.queue)),
                            !.st = receive(@, Head(unit.queue))]
    /\ UNCHANGED dispatchVars
    /\ UNCHANGED lg

\* the channel is closed and empty: the statistics are logged
StatReport ==
    /\ unit.op = "statistic"
    /\ unit.pc = "range"
    /\ unit.queue = <<>>
    /\ unit' = [unit EXCEPT !.pc = "return", !.logged = statistics(unit.st)]
    /\ UNCHANGED dispatchVars
    /\ UNCHANGED lg

StatNext ==
    \/ StatReceive
    \/ StatReport

StatSpec == StatInit /\ [][StatNext]_vars

----
\* Properties

\* The error a file's Result carries according to the environment of that
\* file alone.
Outcome(t) ==
    IF env[t].readable = "no" THEN "read"
    ELSE IF env[t].valid = "no" THEN "invalid"
    ELSE IF sendRequest(t, env[t].status).err # "nil" THEN "send"
    ELSE IF env[t].writable \in {"no", "partial"} THEN "save"
    ELSE "nil"

Started == {w \in WorkerIds : wk[w].pc # "none"}
Running == {w \in WorkerIds : wk[w].pc \notin {"none", "done"}}
Holding == {w \in WorkerIds : wk[w].pc \in {"read", "valid", "send", "inflight",
                                            "save", "emit"}}
InProgress == {t \in Tasks : dequeued[t] > Len(produced[t])}
PoolStarted == mainPC \in {"enqueue", "close", "gowait", "collect", "done"}

\* C1: when main's loop over resultsChan has ended, successCount + errorCount
\* equals the number of discovered files.
AllResultsCounted ==
    mainPC = "done" => successCount + errorCount = N

AllResultsCountedWitness ==
    /\ mainPC = "done"
    /\ N >= 2
    /\ successCount >= 1
    /\ errorCount >= 1

\* C2: every discovered file is received from filesChan by exactly one worker
\* and yields exactly one Result, which carries its name.
ExactlyOneResultPerTask ==
    /\ \A t \in Tasks :
          /\ dequeued[t] <= 1
          /\ Len(produced[t]) <= 1
          /\ Cardinality({w \in Holding : wk[w].filePath = t}) <= 1
          /\ mainPC = "done" =>
                /\ dequeued[t] = 1
                /\ Len(produced[t]) = 1
                /\ collected[t] = 1
    /\ \A w \in WorkerIds :
          wk[w].pc = "emit" => wk[w].res.FileName = wk[w].filePath

ExactlyOneResultPerTaskWitness ==
    /\ N >= 2
    /\ Cardinality(Holding) >= 2
    /\ \E t \in Tasks : Len(produced[t]) = 0 /\ dequeued[t] = 1

\* C3: a file whose content is not valid JSON is never passed to sendRequest,
\* and its Result carries the validation error.
InvalidNeverSent ==
    \A t \in Tasks :
       env[t].valid = "no" =>
          /\ sendCalls[t] = 0
          /\ \A k \in 1 .. Len(produced[t]) : produced[t][k] = "invalid"
          /\ \A w \in WorkerIds :
                (wk[w].pc = "emit" /\ wk[w].filePath = t) => wk[w].res.Err = "invalid"
          /\ mainPC = "done" => produced[t] = <<"invalid">>

InvalidNeverSentWitness ==
    \E t \in Tasks :
       /\ env[t].valid = "no"
       /\ produced[t] = <<"invalid">>
       /\ collected[t] = 1

\* C4: main starts exactly min(configured workers, N) workers and none later;
\* the files being processed, and so the requests in flight, never outnumber
\* them.
PoolSizeFixed ==
    LET pool == Min(configured, N) IN
       /\ Cardinality(Started) <= pool
       /\ PoolStarted => Cardinality(Started) = pool
       /\ Cardinality(InProgress) <= Cardinality(Running)
       /\ Cardinality({w \in WorkerIds : wk[w].pc = "inflight"}) <= pool

PoolSizeFixedWitness ==
    /\ N < configured
    /\ mainPC = "collect"
    /\ Cardinality(Started) = N
    /\ \E w \in WorkerIds : wk[w].pc = "inflight"

\* C5: a worker leaves its loop only at a closed and empty filesChan; after a
\* failed file it receives again; and the Result of every file is the one its
\* own environment determines.
WorkerSurvivesFailure ==
    /\ [](\A t \in Tasks : \A k \in 1 .. Len(produced[t]) : produced[t][k] = Outcome(t))
    /\ [][\A w \in WorkerIds :
            /\ (wk[w].pc \notin {"none", "exit", "done"} /\ wk'[w].pc \in {"exit", "done"})
                  => (wk[w].pc = "recv" /\ filesChan.closed /\ filesChan.buf = <<>>)
            /\ (wk[w].pc = "emit" /\ wk[w].res.Err # "nil" /\ wk'[w].pc # "emit")
                  => wk'[w].pc = "recv"]_vars

WorkerSurvivesFailureWitness ==
    /\ configured = 1
    /\ N >= 2
    /\ \E t \in Tasks : Len(produced[t]) = 1 /\ produced[t][1] # "nil"
    /\ \E t \in Tasks : dequeued[t] = 1 /\ Len(produced[t]) = 0

\* C6: once files are discovered, main eventually has received the Result of
\* every file, every worker has exited, resultsChan is closed and main is done.
RunTerminates ==
    (mainPC = "setup") ~>
       /\ mainPC = "done"
       /\ \A t \in Tasks : collected[t] = 1
       /\ Running = {}
       /\ resultsChan.closed

RunTerminatesWitness ==
    /\ mainPC = "done"
    /\ N >= 2
    /\ \A t \in Tasks : collected[t] = 1
    /\ Running = {}
    /\ Cardinality(Started) >= 2
    /\ resultsChan.closed

\* C7: the totals are printed once, at a closed and empty resultsChan, and no
\* Result is counted afterwards.
TotalsReportedOnce ==
    /\ [](/\ reported <= 1
          /\ reported = 1 => (resultsChan.closed /\ resultsChan.buf = <<>>)
          /\ mainPC = "done" => reported = 1)
    /\ [][reported = 1 => UNCHANGED <<successCount, errorCount, collected>>]_vars

TotalsReportedOnceWitness ==
    /\ reported = 1
    /\ errorCount >= 2

\* C8: neither channel ever holds more than N elements, and neither main's
\* send to filesChan nor a worker's send to resultsChan finds its channel full.
QueuesNeverFull ==
    /\ Len(filesChan.buf) <= N
    /\ Len(resultsChan.buf) <= N
    /\ mainPC = "enqueue" => Len(filesChan.buf) < filesChan.cap
    /\ \A w \in WorkerIds : wk[w].pc = "emit" => Len(resultsChan.buf) < resultsChan.cap

QueuesNeverFullWitness ==
    /\ N >= 2
    /\ successCount + errorCount = 0
    /\ Len(resultsChan.buf) = N - 1
    /\ \E w \in WorkerIds : wk[w].pc = "emit"

\* C9: resultsChan is closed once, after every worker has exited, and no
\* worker sends on it once it is closed.
ResultsClosedAfterWorkers ==
    /\ closes <= 1
    /\ ~panicked
    /\ resultsChan.closed =>
          /\ closes = 1
          /\ PoolStarted
          /\ Running = {}
          /\ wg = 0

ResultsClosedAfterWorkersWitness ==
    /\ resultsChan.closed
    /\ closes = 1
    /\ Cardinality(Started) >= 2
    /\ mainPC = "collect"

\* C10 as stated: main receives no Result before the goroutine that waits for
\* the WaitGroup has seen every worker exit.
AggregatorWaitsForWorkers ==
    successCount + errorCount > 0 =>
       /\ waiterPC \in {"close", "done"}
       /\ Running = {}

\* C10 amended: main's loop over resultsChan does not end, and the totals are
\* not printed, before the goroutine that waits for the WaitGroup has seen
\* every worker exit and has closed resultsChan.
AggregatorEndsAfterWorkers ==
    (mainPC = "done" \/ reported > 0) =>
       /\ waiterPC = "done"
       /\ Running = {}

AggregatorEndsAfterWorkersWitness ==
    /\ mainPC = "done"
    /\ waiterPC = "done"
    /\ Cardinality(Started) >= 2
    /\ successCount >= 2

\* C15 as stated: when main has ended, the file of every success holds that
\* file's response, and the path of every failure is as it was before the run.
FilesMatchResultsStated ==
    mainPC = "done" =>
       \A t \in Tasks :
          /\ produced[t] = <<"nil">> => files[t] = t
          /\ produced[t] # <<"nil">> => files[t] = 0

\* C16: no two workers are in saveResponse for the same file name, no file
\* ever holds the response of another file, and in the end the file of every
\* success holds its own response.
OutputPathsDistinct ==
    /\ \A v, w \in WorkerIds :
          (v # w /\ wk[v].pc = "save" /\ wk[w].pc = "save")
             => wk[v].filePath # wk[w].filePath
    /\ \A t \in TaskIds : files[t] \in {0, t, Partial}
    /\ mainPC = "done" =>
          \A t \in Tasks : produced[t] = <<"nil">> => files[t] = t

OutputPathsDistinctWitness ==
    /\ Cardinality({w \in WorkerIds : wk[w].pc = "save"}) >= 2
    /\ \A t \in Tasks : files[t] = 0

\* C17: when the configuration is invalid, the requests directory is missing
\* or the responses directory cannot be made, main has ended; no worker was
\* started, no file was discovered or read, nothing was sent or written.
StartupFailureStopsRun ==
    (startup.config = "no" \/ startup.requestsDir = "no" \/ startup.responsesDir = "no")
       => /\ mainPC = "exited"
          /\ Started = {}
          /\ wg = 0
          /\ filePaths = <<>>
          /\ \A t \in TaskIds : dequeued[t] = 0 /\ sendCalls[t] = 0 /\ files[t] = 0

StartupFailureStopsRunWitness ==
    /\ mainPC = "exited"
    /\ startup.config = "yes"
    /\ startup.requestsDir = "yes"
    /\ startup.responsesDir = "no"

\* What a two-space-indented form of a JSON text is, stated on the texts
\* themselves.
Openers == {"{", "["}
Closers == {"}", "]"}
Blank == {" ", "nl"}

NonBlank(text) == SelectSeq(text, LAMBDA c : c \notin Blank)

\* The index of the last token of text that is not white space, 0 without one
LastNonBlank(text) ==
    LET I == {i \in 1 .. Len(text) : text[i] \notin Blank} IN
       IF I = {} THEN 0 ELSE CHOOSE i \in I : \A j \in I : j <= i

\* The nesting depth after the first i tokens of text
Depth(text, i) ==
    Cardinality({j \in 1 .. i : text[j] \in Openers})
       - Cardinality({j \in 1 .. i : text[j] \in Closers})

\* The number of spaces that follow token i of text directly
SpacesAfter(text, i) ==
    LET J == {j \in i + 1 .. Len(text) + 1 :
                 j = Len(text) + 1 \/ text[j] # " "}
        first == CHOOSE j \in J : \A k \in J : j <= k
    IN first - i - 1

At(text, i) == IF i \in 1 .. Len(text) THEN text[i] ELSE "none"

IsIndentedFormOf(out, text) ==
    LET last == LastNonBlank(out) IN
       /\ NonBlank(out) = NonBlank(text)
       /\ Len(out) - last = Len(text) - LastNonBlank(text)
       /\ \A i \in last + 1 .. Len(out) : out[i] = " "
       /\ At(out, 1) \notin Blank
       /\ \A i \in 1 .. last :
             /\ out[i] \in Openers => At(out, i + 1) \in Closers \cup {"nl"}
             /\ out[i] = "," => At(out, i + 1) = "nl"
             /\ out[i] = ":" => At(out, i + 1) = " " /\ At(out, i + 2) \notin Blank
             /\ out[i] \in Closers => At(out, i - 1) \in Openers \cup {" ", "nl"}
             /\ out[i] = " " =>
                   \/ At(out, i - 1) \in {" ", "nl"}
                   \/ At(out, i - 1) = ":"
             /\ out[i] = "nl" =>
                   LET k == SpacesAfter(out, i)
                       next == At(out, i + k + 1)
                   IN /\ next \notin Blank \cup {"none"}
                      /\ \/ At(out, i - 1) \in Openers \cup {","}
                         \/ next \in Closers
                      /\ At(out, i - 1) \in Openers => next \notin Closers
                      /\ k = 2 * (Depth(out, i) - IF next \in Closers THEN 1 ELSE 0)
             /\ (out[i] \notin Blank /\ At(out, i + 1) \in Closers)
                   => out[i] \in Openers

\* C14: when the write succeeds the file holds the two-space-indented form
\* of a valid body and the raw body otherwise, whatever it held before, and
\* saveResponse returns an error only when the write itself failed.
SavedIndentedOrRaw ==
    (unit.op = "saveResponse" /\ unit.pc = "return") =>
       /\ (unit.err = "nil") <=> (unit.write = "ok")
       /\ unit.write = "ok" =>
             /\ unit.file.exists
             /\ Valid(unit.response) => IsIndentedFormOf(unit.file.data, unit.response)
             /\ ~Valid(unit.response) => unit.file.data = unit.response

SavedIndentedOrRawWitness ==
    /\ unit.op = "saveResponse" /\ unit.pc = "return"
    /\ unit.write = "ok"
    /\ unit.prior = OldFile
    /\ unit.response = <<"{", "s", ":", "[", "s", ",", "s", "]", "}">>
    /\ Len(unit.file.data) > Len(unit.response)

\* The task of the unit has been sent and its Result placed on the queue
SendReported ==
    /\ unit.op = "work"
    /\ unit.pc \in {"reported", "collected"}
    /\ unit.sent.err # "?"

\* The request was made and no whole reply came back: no response at all, or
\* a response whose body could not be read to the end
TransportFailed == unit.net.made /\ ~(unit.net.arrived /\ unit.net.bodyRead)

ReplyReceived == unit.net.made /\ unit.net.arrived /\ unit.net.bodyRead

\* C11 as stated: when the request fails at the transport level Send returns
\* an error and no status code, the Result carries the send error with status
\* code zero, and no output file is written.
TransportFailureHasNoStatus ==
    (SendReported /\ TransportFailed) =>
       /\ unit.sent.err \notin {"nil", "status"}
       /\ unit.sent.status = 0
       /\ unit.res.Err.stage = "send"
       /\ unit.res.StatusCode = 0
       /\ unit.file = unit.prior

\* C11, amended: when the request fails at the transport level Send returns
\* an error, with status code zero when no response arrived and with the
\* status code of the response when its body could not be read; the Result
\* carries the send error with that status code, and no output file is
\* written.
TransportFailureStatus ==
    (SendReported /\ TransportFailed) =>
       LET code == IF unit.net.arrived THEN unit.net.status ELSE 0 IN
          /\ unit.sent.err \notin {"nil", "status"}
          /\ unit.sent.status = code
          /\ unit.sent.body = <<>>
          /\ unit.res.Err.stage = "send"
          /\ unit.res.Err.cause = unit.sent.err
          /\ unit.res.StatusCode = code
          /\ unit.file = unit.prior
          /\ unit.write = "?"

TransportFailureStatusWitness ==
    /\ SendReported
    /\ unit.net.made /\ ~unit.net.arrived
    /\ unit.res.Err = [stage |-> "send", cause |-> "transport"]
    /\ unit.res.StatusCode = 0
    /\ unit.file = NoFile

\* C12: for every reply received Send returns the body and the status code of
\* the reply, and returns an error exactly when the status is outside
\* 200..299; without a response the status code is zero, which no reply has.
SendReturnsReply ==
    (unit.op = "work" /\ unit.sent.err # "?" /\ unit.net.made) =>
       /\ ReplyReceived =>
             /\ unit.sent.body = unit.net.body
             /\ unit.sent.status = unit.net.status
             /\ unit.sent.status # 0
             /\ (unit.sent.err # "nil") <=> (unit.net.status \notin 200 .. 299)
             /\ unit.sent.err \in {"nil", "status"}
       /\ ~unit.net.arrived =>
             /\ unit.sent.status = 0
             /\ unit.sent.err \notin {"nil", "status"}

SendReturnsReplyWitness ==
    /\ unit.op = "work" /\ unit.pc = "reported"
    /\ ReplyReceived
    /\ unit.net.status = 300
    /\ unit.net.body = <<"{", "s", ":", "s", "}">>
    /\ unit.sent.err = "status"

\* C13: a reply with a status outside 200..299 gives a Result with that
\* status code and a send error naming the status, the task is counted as a
\* failure, and Send has handed the body of the reply back to the worker.
RejectedReplyReported ==
    (SendReported /\ ReplyReceived /\ unit.net.status \notin 200 .. 299) =>
       /\ unit.res.StatusCode = unit.net.status
       /\ unit.res.Err = [stage |-> "send", cause |-> "status"]
       /\ unit.sent.body = unit.net.body
       /\ unit.pc = "collected" => unit.errorCount = 1 /\ unit.successCount = 0

RejectedReplyReportedWitness ==
    /\ unit.op = "work" /\ unit.pc = "collected"
    /\ ReplyReceived
    /\ unit.net.status = 500
    /\ unit.sent.body = <<"{", "s", ":", "s", "}">>
    /\ unit.res.StatusCode = 500
    /\ unit.errorCount = 1

\* The handle of the call made last, and the line that call wrote
Called == lg.handles[lg.last.h]
Wrote == Len(lg.sink) - lg.last.before
Line == lg.sink[Len(lg.sink)]

\* C18: an emission at a level from DEBUG to ERROR through a handle with a
\* level from DEBUG to FATAL, a sink and fields that can be encoded writes
\* nothing when its level is below the level the handle has at the call, set
\* at construction or by SetLevel, and one structured record otherwise.
LevelFilter ==
    (/\ lg.last.op = "log"
     /\ lg.last.level \in DEBUG .. ERROR
     /\ Called.level \in DEBUG .. FATAL
     /\ Called.output = "buf"
     /\ Encodable(Called.fields)
     /\ \A i \in 1 .. Len(lg.last.args) : Encodable(lg.last.args[i]))
       => /\ lg.last.level < Called.level => Wrote = 0
          /\ lg.last.level >= Called.level =>
                /\ Wrote = 1
                /\ Line.kind = "json"
                /\ Line.timestamp = "now"
                /\ Line.level = levelNames[lg.last.level]
                /\ Line.message = lg.last.msg
                /\ Line.caller = "caller"
                /\ DOMAIN Line.fields \subseteq {"a", "b"}

LevelFilterWitness ==
    /\ lg.last.op = "log"
    /\ lg.last.h = 2
    /\ lg.handles[1].level = ERROR
    /\ lg.handles[2].level = INFO
    /\ lg.last.level = INFO
    /\ Wrote = 1
    /\ Line.kind = "json" /\ Line.level = "INFO"

\* C19: the fields of an emitted record have the keys of the base fields of
\* the handle and of every mapping of the call; a key has the value of the
\* last mapping of the call that has it, and its base value when none has.
FieldsMerged ==
    (lg.last.op = "log" /\ Wrote = 1 /\ Line.kind = "json") =>
       LET base == Called.fields
           args == lg.last.args
           With(k) == {i \in 1 .. Len(args) : k \in DOMAIN args[i]}
           Latest(k) == CHOOSE i \in With(k) : \A j \in With(k) : j <= i
       IN /\ DOMAIN Line.fields
                = DOMAIN base \cup UNION {DOMAIN args[i] : i \in 1 .. Len(args)}
          /\ \A k \in DOMAIN Line.fields :
                Line.fields[k] = IF With(k) = {} THEN base[k] ELSE args[Latest(k)][k]

FieldsMergedWitness ==
    /\ lg.last.op = "log" /\ Wrote = 1
    /\ Called.fields = Map1("a", "v1")
    /\ lg.last.args = <<Map2("v3", "v3"), Map1("a", "v4")>>
    /\ Line.kind = "json"
    /\ Line.fields = Map2("v4", "v3")

\* C20: WithFields adds a handle whose base fields have the keys of the
\* parent and of the given fields, with the given value where both have the
\* key; no call, of WithFields or through any handle, changes the base fields
\* of a handle that exists.
BaseFieldsKept ==
    [][/\ \A h \in Handles : lg'.handles[h].fields = lg.handles[h].fields
       /\ Len(lg'.handles) > Len(lg.handles) =>
             LET parent == lg.handles[lg'.last.h].fields
                 given == lg'.last.args[1]
                 child == lg'.handles[Len(lg'.handles)].fields
             IN /\ lg'.last.op = "WithFields"
                /\ Len(lg'.handles) = Len(lg.handles) + 1
                /\ DOMAIN child = DOMAIN parent \cup DOMAIN given
                /\ \A k \in DOMAIN child :
                      child[k] = IF k \in DOMAIN given THEN given[k] ELSE parent[k]]_vars

BaseFieldsKeptWitness ==
    /\ lg.last.op = "log" /\ lg.last.h = 2 /\ Wrote = 1
    /\ lg.handles[1].fields = Map1("a", "v1")
    /\ lg.handles[2].fields = Map1("a", "v2")
    /\ Line.kind = "json"
    /\ Line.fields = Map1("a", "v2")

\* The handles derived from handle p, directly or through other handles
RECURSIVE DerivedFrom(_, _)
DerivedFrom(p, n) ==
    IF n = 0 THEN {}
    ELSE LET D == DerivedFrom(p, n - 1) IN
            D \cup {c \in Handles : lg.handles[c].parent \in D \cup {p}}
Descendants(p) == DerivedFrom(p, Len(lg.handles))

\* C22 as stated: after SetLevel or SetOutput on a handle, the handles that
\* were derived from it have its new level, its new sink.
SettingsReachDerived ==
    /\ lg.last.op = "SetLevel" =>
          \A c \in Descendants(lg.last.h) : lg.handles[c].level = Called.level
    /\ lg.last.op = "SetOutput" =>
          \A c \in Descendants(lg.last.h) : lg.handles[c].output = Called.output

\* C24 as stated: an emission through a handle whose level is NOLOG, from
\* construction or from SetLevel, writes nothing to the sink.
NologWritesNothing ==
    (lg.last.op = "log" /\ Called.level = NOLOG) => Wrote = 0

\* The goroutines inside a call that passed the level filter
InFlight == {g \in Goroutines : lg.calls[g].pc # "idle"}

\* C21 as stated: emissions through different handles derived from one
\* handle exclude each other on the sink they share: at most one of them is
\* writing at any moment.
DerivedHandlesExclude ==
    \A g, k \in lg.writing :
       (/\ g # k
        /\ lg.handles[lg.calls[g].h].parent = lg.handles[lg.calls[k].h].parent
        /\ lg.handles[lg.calls[g].h].parent # 0
        /\ lg.handles[lg.calls[g].h].output = lg.handles[lg.calls[k].h].output)
          => FALSE

\* C23: a goroutine that writes holds the lock of its handle, so no two
\* goroutines write through one handle at a time; and as long as every
\* emission went through one handle, every line in the sink is whole and the
\* lines are as many as the accepted emissions that have returned.
OneHandleLinesWhole ==
    /\ \A g \in lg.writing : lg.mu[lg.calls[g].h] = g
    /\ \A g, k \in lg.writing : g # k => lg.calls[g].h # lg.calls[k].h
    /\ \A h \in Handles :
          (/\ \A i \in 1 .. Len(lg.sink) : lg.sink[i].h = h
           /\ \A g \in InFlight : lg.calls[g].h = h)
             => /\ \A i \in 1 .. Len(lg.sink) : lg.sink[i].whole
                /\ Len(lg.sink) = lg.accepted - Cardinality(InFlight)

OneHandleLinesWholeWitness ==
    /\ lg.calls[1].h = 1 /\ lg.calls[2].h = 1
    /\ lg.calls[1].pc = "writing"
    /\ lg.calls[2].pc = "lock"
    /\ lg.mu[1] = 1
    /\ lg.accepted = 2

\* C27: an accepted emission whose fields cannot be encoded writes one line
\* of plain text with the timestamp, the level and the message and no
\* structured record, and a call of Debug, Info, Warn or Error returns to its
\* caller.
UnencodableFallsBack ==
    (/\ lg.last.op = "log"
     /\ lg.last.level >= Called.level
     /\ Called.output = "buf"
     /\ \E k \in DOMAIN mergeFields(lg.last.args) : mergeFields(lg.last.args)[k] = "chan")
       => /\ Wrote = 1
          /\ Line.kind = "text"
          /\ Line.timestamp = "now"
          /\ Line.level = levelNames[lg.last.level]
          /\ Line.message = lg.last.msg
          /\ Line.fields = EmptyFields
          /\ lg.last.level # FATAL => ~lg.exited

UnencodableFallsBackWitness ==
    /\ lg.last.op = "log"
    /\ lg.last.level = WARN
    /\ Called.level = INFO
    /\ Called.fields = Map1("a", "v1")
    /\ lg.last.args = <<Map1("b", "chan")>>
    /\ Wrote = 1
    /\ Line.kind = "text" /\ Line.level = "WARN" /\ Line.message = "msg"
    /\ ~lg.exited

\* C28: after a call of Fatal the process has exited, whatever the level and
\* the sink of the handle; the record is in the sink when the handle has a
\* sink that keeps it; and no step is taken once the process has exited.
FatalTerminates ==
    /\ [](lg.last.op = "log" /\ lg.last.level = FATAL =>
             /\ lg.exited
             /\ Called.output = "buf" =>
                   /\ Wrote = 1
                   /\ Line.level = "FATAL"
                   /\ Line.message = lg.last.msg
             /\ Called.output # "buf" => Wrote = 0)
    /\ [][~lg.exited]_vars

FatalTerminatesWitness ==
    /\ lg.last.op = "log" /\ lg.last.level = FATAL
    /\ Called.level = FATAL
    /\ Called.output = "buf"
    /\ Wrote = 1
    /\ Line.kind = "json" /\ Line.level = "FATAL"
    /\ lg.exited

\* Two names are equal up to the case of their letters
SameButCase(a, b) ==
    /\ Len(a) = Len(b)
    /\ \A i \in 1 .. Len(a) :
          \/ a[i] = b[i]
          \/ \E j \in 1 .. Len(LowerCase) :
                {a[i], b[i]} = {LowerCase[j], UpperCase[j]}

\* What New has returned
Constructed == unit.op = "New" /\ unit.pc = "return"
FileLevelNames == {debugName, infoName, warnName, warningName, errorName, fatalName}
NamesFileLevel == \E w \in FileLevelNames : SameButCase(unit.level, w)

\* C25: New gives the level of the name whatever the case of its letters:
\* debug, info, warn or warning, error, fatal; stdout gives STDOUT and the
\* standard output as sink for every output file name, and no error; the
\* empty name and every other name give NOLOG and no error; no error is
\* returned when the output file can be opened.
NewMapsLevelName ==
    Constructed =>
       LET is(w) == SameButCase(unit.level, w)
           level == unit.logger[1].level
       IN /\ Len(unit.logger) = 1
          /\ is(debugName) => level = DEBUG
          /\ is(infoName) => level = INFO
          /\ is(warnName) \/ is(warningName) => level = WARN
          /\ is(errorName) => level = ERROR
          /\ is(fatalName) => level = FATAL
          /\ is(stdoutName) =>
                level = STDOUT /\ unit.logger[1].output = Stdout /\ ~unit.err
          /\ ~NamesFileLevel /\ ~is(stdoutName) => level = NOLOG /\ ~unit.err
          /\ unit.outputFile \in unit.fs => ~unit.err

NewMapsLevelNameWitness ==
    /\ Constructed
    /\ unit.level = <<"W", "a", "r", "n", "i", "n", "g">>
    /\ unit.outputFile = "log.json"
    /\ unit.fs = {"log.json"}
    /\ unit.logger[1].level = WARN
    /\ unit.logger[1].output = OpenedFile("log.json")
    /\ ~unit.err

\* C26: when the name is that of a file level and the output file cannot be
\* opened, New returns an error and a handle with the level of the name and
\* the standard error as sink; New always returns a handle, and the handle
\* has a sink.
NewDegradesToStderr ==
    Constructed =>
       /\ Len(unit.logger) = 1
       /\ unit.logger[1].output \in {Stdout, Stderr, Discard, OpenedFile(unit.outputFile)}
       /\ NamesFileLevel /\ unit.outputFile \notin unit.fs =>
             /\ unit.err
             /\ unit.logger[1].output = Stderr
             /\ \A w \in FileLevelNames : SameButCase(unit.level, w) =>
                   unit.logger[1].level
                      = IF w = debugName THEN DEBUG
                        ELSE IF w = infoName THEN INFO
                        ELSE IF w \in {warnName, warningName} THEN WARN
                        ELSE IF w = errorName THEN ERROR ELSE FATAL

NewDegradesToStderrWitness ==
    /\ Constructed
    /\ unit.level = infoName
    /\ unit.outputFile = "/dir/test.log"
    /\ unit.fs = {"log.json"}
    /\ unit.err
    /\ Len(unit.logger) = 1
    /\ unit.logger[1].level = INFO
    /\ unit.logger[1].output = Stderr

\* The value the command line gives a flag: that of its last occurrence, the
\* default when it has none
Supplied(name, default) ==
    LET at == {i \in 1 .. Len(unit.line) : unit.line[i].flag = name} IN
    IF at = {} THEN default
    ELSE unit.line[CHOOSE i \in at : \A j \in at : j <= i].value

Configured == unit.op = "config.New" /\ unit.pc = "return"

\* C29: parse and config.New return an error and a record with every field
\* empty exactly when the requests directory is empty, the responses
\* directory is empty, the timeout is not positive, the workers are outside
\* 1 .. the CPUs, or the log level is none of "", stdout, debug, info, warn,
\* error; otherwise they return no error and the values of the command line,
\* the last one of a flag given more than once.
ParseRejectsExactly ==
    Configured =>
       LET requests == Supplied("requests", <<"requests">>)[1]
           responses == Supplied("responses", <<"responses">>)[1]
           timeout == Supplied("timeout", <<"3", "0">>)
           workers == Supplied("workers", <<"n">>)
           logName == Supplied("log", <<"">>)[1]
           number(text) == IF text = <<"n">> THEN unit.numCPU ELSE Atoi(text)
           wrong == \/ requests = ""
                    \/ responses = ""
                    \/ number(timeout) <= 0
                    \/ number(workers) \notin 1 .. unit.numCPU
                    \/ logName \notin {"", "stdout", "debug", "info", "warn", "error"}
           given == [URL |-> Supplied("url", <<"http://localhost:8080/execute">>)[1],
                     RequestsDir |-> requests, ResponsesDir |-> responses,
                     Timeout |-> number(timeout), Workers |-> number(workers),
                     Log |-> logName]
       IN /\ unit.err <=> wrong
          /\ Len(unit.flags) = 1 /\ Len(unit.config) = 1
          /\ wrong => unit.flags[1] = EmptyFlags /\ unit.config[1] = EmptyFlags
          /\ ~wrong => unit.flags[1] = given /\ unit.config[1] = given

ParseRejectsExactlyWitness ==
    /\ Configured
    /\ unit.numCPU = 2
    /\ unit.line = <<Arg("workers", <<"3">>), Arg("workers", <<"2">>)>>
    /\ ~unit.err
    /\ unit.config[1].Workers = 2
    /\ unit.config[1].RequestsDir = "requests"

\* The stages of work in their order, and the stage an error of a Result names
StageOrder == <<"read", "validate", "send", "save">>
StageOfError(stage) == IF stage = "invalid" THEN "validate" ELSE stage
Reported == unit.pc \in {"reported", "collected"}

\* C30: the stages a task has gone through are the first ones of read,
\* validate, send, save in this order, each once; the Result is reported
\* after them and once; a Result without error follows all four stages; a
\* Result with an error names the last stage that ran, so no later stage ran;
\* a file that is no JSON goes no further than validate and a request that
\* failed no further than send; and after the report no stage runs for the
\* task.
StagesInOrder ==
    /\ [](unit.op = "work" =>
             /\ Len(unit.stages) <= Len(StageOrder)
             /\ unit.stages = SubSeq(StageOrder, 1, Len(unit.stages))
             /\ ~Reported => unit.res = ZeroResult
             /\ Reported /\ unit.res.Err = NoErr => unit.stages = StageOrder
             /\ Reported /\ unit.res.Err # NoErr =>
                   /\ Len(unit.stages) > 0
                   /\ StageOfError(unit.res.Err.stage) = unit.stages[Len(unit.stages)]
             /\ Len(unit.stages) >= 2 /\ ~Valid(unit.jsonData) =>
                   /\ Len(unit.stages) = 2
                   /\ unit.res.Err.stage = "invalid"
             /\ Len(unit.stages) >= 3 /\ unit.sent.err # "nil" =>
                   /\ Len(unit.stages) = 3
                   /\ unit.res.Err.stage = "send")
    /\ [][/\ Reported => unit'.stages = unit.stages /\ unit'.res = unit.res
          /\ ~Reported => Len(unit'.stages) = Len(unit.stages) + 1]_vars

StagesInOrderWitness ==
    /\ unit.op = "work"
    /\ unit.pc = "collected"
    /\ unit.stages = <<"read", "validate", "send">>
    /\ unit.res.Err.stage = "send"
    /\ unit.errorCount = 1

\* C31: sendRequest is entered at most once for a file, and only for a file
\* that was read and holds valid JSON; when the Result of such a file has
\* been produced, sendRequest was entered once for it, whatever it returned.
SentAtMostOnce ==
    \A t \in Tasks :
       /\ sendCalls[t] <= 1
       /\ sendCalls[t] = 1 => env[t].readable = "yes" /\ env[t].valid = "yes"
       /\ (Len(produced[t]) = 1 /\ env[t].readable = "yes" /\ env[t].valid = "yes")
             => sendCalls[t] = 1
       /\ (Len(produced[t]) = 1 /\ (env[t].readable = "no" \/ env[t].valid = "no"))
             => sendCalls[t] = 0

SentAtMostOnceWitness ==
    /\ mainPC = "done"
    /\ N = 2
    /\ env[1].status = 0 /\ produced[1] = <<"send">> /\ sendCalls[1] = 1
    /\ env[2].readable = "no" /\ sendCalls[2] = 0

\* C32 as stated: once the pool has been set up, cfg.Workers is the number of
\* workers that was configured.
ConfigKeepsWorkers ==
    mainPC \in {"spawn", "enqueue", "close", "gowait", "collect", "done"}
       => cfg.Workers = configured

\* C36: when main has ended, the counts and the response files are those the
\* fates of the files give, for every number of workers and every order of
\* their steps: a success for each file that was read, was valid, got a reply
\* with a status from 200 to 299 and was written, an error for each other
\* file; the response of a file under its own name where it was written, what
\* a failed write left, and no file otherwise.
FinalStateFixedByOutcomes ==
    (mainPC = "done" /\ ~panicked) =>
       /\ successCount = Cardinality({t \in Tasks : Outcome(t) = "nil"})
       /\ errorCount = Cardinality({t \in Tasks : Outcome(t) # "nil"})
       /\ \A t \in Tasks :
             files[t] = IF Outcome(t) = "nil" THEN t
                        ELSE IF Outcome(t) = "save" /\ env[t].writable = "partial"
                        THEN Partial
                        ELSE 0
       /\ \A t \in TaskIds \ Tasks : files[t] = 0

FinalStateFixedByOutcomesWitness ==
    /\ mainPC = "done"
    /\ N = 2
    /\ configured = 2
    /\ spawned = 2
    /\ successCount = 2
    /\ files[1] = 1 /\ files[2] = 2

\* C38: when the search for request files finds none, main has ended: the
\* channels were not made, no worker and no waiting goroutine was started,
\* nothing was sent or written and the totals were not printed; and main
\* takes no further step.
NoTasksEndsRun ==
    /\ []((startup.glob = "yes" /\ N = 0) =>
             /\ mainPC = "exited"
             /\ filesChan = NewChan(0) /\ resultsChan = NewChan(0)
             /\ Started = {} /\ spawned = 0 /\ wg = 0
             /\ waiterPC = "none"
             /\ \A t \in TaskIds : dequeued[t] = 0 /\ sendCalls[t] = 0 /\ files[t] = 0
             /\ successCount = 0 /\ errorCount = 0
             /\ reported = 0)
    /\ [][~(startup.glob = "yes" /\ N = 0)]_vars

NoTasksEndsRunWitness ==
    /\ startup.glob = "yes"
    /\ N = 0
    /\ mainPC = "exited"
    /\ configured = 2

\* The Results statistic has received that are successes, their durations
Successes == {i \in 1 .. Len(unit.received) : unit.received[i].Err = NoErr}
SuccessDuration(i) == unit.received[i].Duration
RECURSIVE SumOver(_, _)
SumOver(indices, f) ==
    IF indices = {} THEN 0
    ELSE LET i == CHOOSE x \in indices : TRUE IN f[i] + SumOver(indices \ {i}, f)

\* C35 as stated: when statistic has received every Result and one of them
\* at least is a success, the minimum, the maximum and the average duration
\* it logs are the least, the greatest and the sum divided by the count of
\* the durations of the successes, whatever the durations; and the byte
\* totals and the histogram of status codes count the successes only.
StatisticsOfSuccesses ==
    (unit.op = "statistic" /\ unit.pc = "return" /\ Successes # {}) =>
       LET DurationOf == [i \in Successes |-> unit.received[i].Duration]
           SizeOf == [i \in Successes |-> unit.received[i].ResponseSize]
           RequestOf == [i \in Successes |-> unit.received[i].RequestSize]
           least == CHOOSE i \in Successes :
                       \A j \in Successes : SuccessDuration(i) <= SuccessDuration(j)
           greatest == CHOOSE i \in Successes :
                       \A j \in Successes : SuccessDuration(j) <= SuccessDuration(i)
       IN /\ Len(unit.logged) = 1
          /\ unit.logged[1].min_duration_ms = Milliseconds(SuccessDuration(least))
          /\ unit.logged[1].max_duration_ms = Milliseconds(SuccessDuration(greatest))
          /\ unit.logged[1].avg_duration_ms
                = Milliseconds(SumOver(Successes, DurationOf) \div Cardinality(Successes))
          /\ unit.logged[1].total_response_size = SumOver(Successes, SizeOf)
          /\ unit.logged[1].total_request_size = SumOver(Successes, RequestOf)
          /\ \A c \in {0, 200, 204, 500} :
                Cardinality({i \in Successes : unit.received[i].StatusCode = c})
                   = IF c \in DOMAIN unit.logged[1].status_codes
                     THEN unit.logged[1].status_codes[c] ELSE 0

\* C33 as stated: the Result of a task that failed has the size of the
\* payload when the payload was read, the status code when a reply arrived,
\* the size of the body when the body of a reply was read, of a reply with a
\* status outside 200..299 too, and the time that has passed.
FailureKeepsPartialValues ==
    (unit.op = "work" /\ Reported /\ unit.res.Err # NoErr) =>
       /\ Len(unit.stages) >= 2 => unit.res.RequestSize = Len(unit.jsonData)
       /\ (Len(unit.stages) >= 3 /\ unit.net.arrived) =>
             unit.res.StatusCode = unit.net.status
       /\ (Len(unit.stages) >= 3 /\ unit.net.arrived /\ unit.net.bodyRead) =>
             unit.res.ResponseSize = Len(unit.net.body)
       /\ unit.res.Duration = unit.elapsed

\* C34: when the Result of a task that failed is handed to resultsChan, work
\* has made a call of Error with the name of the file among its fields.
FailureLoggedAsError ==
    (unit.op = "work" /\ Reported /\ unit.res.Err # NoErr) =>
       \E i \in 1 .. Len(unit.logged) :
          /\ unit.logged[i].level = "ERROR"
          /\ unit.logged[i].file = unit.fileName
          /\ unit.res.FileName = unit.fileName

FailureLoggedAsErrorWitness ==
    /\ unit.op = "work"
    /\ unit.pc = "reported"
    /\ unit.res.Err = [stage |-> "send", cause |-> "status"]
    /\ unit.net.status = 404
    /\ unit.logged[Len(unit.logged)] = Emission("ERROR", "send failed", "a.json")

\* C37 as stated: no emission writes to a nil sink, also when SetOutput runs
\* between the check of the sink and the write: no call of log reaches its
\* write with the sink of its handle nil.
NoWriteToNilSink == ~lg.panicked

====
